---------------------------- MODULE Spec2Model ----------------------------
(***************************************************************************)
(* A model of aws_s3_files_autosync: the managed folder's admission       *)
(* filter and entity registry, the watchdog event handlers, the three     *)
(* file classes' S3 operations (files_autosync.File,                      *)
(* s3_file_mgmt.S3ManagedFile, s3_handler.S3ManagedFile) and the          *)
(* reconciliation function check_s3_changes.                              *)
(*                                                                         *)
(* Strings (file names, paths, S3 keys, regexes' subjects) are sequences  *)
(* of one-character strings, so that basename, splitext, the key          *)
(* construction and regular-expression matching are computed, never       *)
(* assumed.  File contents are sequences of bytes; a size is a length.    *)
(***************************************************************************)
EXTENDS Integers, Sequences, FiniteSets, TLC

\* ------------------------------------------------------------- bounds

\* Largest file size (in bytes) the model writes.
MaxSize == 1

\* The clock stops at MaxTime: every operation and every write of the
\* environment takes one second, so this also bounds the length of a run.
MaxTime == 6

\* ------------------------------------------------------------ strings

Str_a_txt == <<"a", ".", "t", "x", "t">>

Str_a_txt_tmp == <<"a", ".", "t", "x", "t", ".", "t", "m", "p">>

Str_b_log == <<"b", ".", "l", "o", "g">>

Str_sub == <<"s", "u", "b">>

Str_sub_a_txt == <<"s", "u", "b", "/", "a", ".", "t", "x", "t">>

Str_c_bak == <<"c", ".", "b", "a", "k">>

Str_pfx == <<"p">>

Str_pfx_slash == <<"p", "/">>

Str_slash_pfx == <<"/", "p">>

\* Index of the last occurrence of character c in s, 0 when there is none.
RECURSIVE LastIndexOf(_, _, _)
LastIndexOf(s, c, i) ==
    IF i = 0 THEN 0
    ELSE IF s[i] = c THEN i
    ELSE LastIndexOf(s, c, i - 1)

\* os.path.basename: what follows the last slash.
basename(p) ==
    LET i == LastIndexOf(p, "/", Len(p))
    IN SubSeq(p, i + 1, Len(p))

\* Number of leading dots of s from position i on.
RECURSIVE LeadingDots(_, _)
LeadingDots(s, i) ==
    IF i <= Len(s) /\ s[i] = "." THEN 1 + LeadingDots(s, i + 1) ELSE 0

\* os.path.splitext(p)[-1]: the extension of the last path component, from its
\* last dot on; leading dots of the component start no extension.
splitext_ext(p) ==
    LET b == basename(p)
        d == LastIndexOf(b, ".", Len(b))
    IN IF d > LeadingDots(b, 1) THEN SubSeq(b, d, Len(b)) ELSE <<>>

\* str.startswith / str.endswith for a one-character argument.
startswith(s, c) == Len(s) > 0 /\ s[1] = c

endswith(s, c) == Len(s) > 0 /\ s[Len(s)] = c

Digits == <<"0", "1", "2", "3", "4", "5", "6", "7", "8", "9">>

\* Decimal digits of a natural number.
RECURSIVE IntStr(_)
IntStr(n) ==
    IF n < 10 THEN <<Digits[n + 1]>>
    ELSE IntStr(n \div 10) \o <<Digits[(n % 10) + 1]>>

\* str() of datetime.timestamp(): a float.  S3 keeps last-modified to the
\* second, so the fraction is always ".0".
FloatStr(n) == IntStr(n) \o <<".", "0">>

\* ------------------------------------------------ regular expressions

\* A compiled pattern is a sequence of tokens [t, c, q]: t the kind of atom
\* ("lit" a literal character c, "any" the dot, "digit" the class [0-9],
\* "eol" the anchor $), q its quantifier ("one", "star", "plus").
Tok(t, c, q) == [t |-> t, c |-> c, q |-> q]

\* Whether one atom accepts character ch.
AtomAccepts(tok, ch) ==
    CASE tok.t = "lit" -> ch = tok.c
      [] tok.t = "any" -> TRUE
      [] tok.t = "digit" -> \E i \in 1..10 : Digits[i] = ch
      [] OTHER -> FALSE

\* Backtracking match of pat[i..] against s[j..]; the pattern need not use up
\* the subject (re.match anchors at the start only).
RECURSIVE MatchAt(_, _, _, _)
MatchAt(pat, i, s, j) ==
    IF i > Len(pat) THEN TRUE
    ELSE LET tok == pat[i] IN
      CASE tok.t = "eol" -> j = Len(s) + 1 /\ MatchAt(pat, i + 1, s, j)
        [] tok.q = "star" ->
              \/ MatchAt(pat, i + 1, s, j)
              \/ (j <= Len(s) /\ AtomAccepts(tok, s[j]) /\ MatchAt(pat, i, s, j + 1))
        [] tok.q = "plus" ->
              /\ j <= Len(s)
              /\ AtomAccepts(tok, s[j])
              /\ (MatchAt(pat, i, s, j + 1) \/ MatchAt(pat, i + 1, s, j + 1))
        [] OTHER ->
              j <= Len(s) /\ AtomAccepts(tok, s[j]) /\ MatchAt(pat, i + 1, s, j + 1)

\* re.Pattern.match(subject)
re_match(pat, s) == MatchAt(pat, 1, s, 1)

\* A configured regex string: valid ones compile to their tokens, invalid
\* ones (re.compile raises) have none.
Regex(valid, toks) == [valid |-> valid, toks |-> toks]

\* r".*\.tmp$"
Re_tmp ==
    Regex(TRUE, <<Tok("any", "", "star"), Tok("lit", ".", "one"), Tok("lit", "t", "one"),
                  Tok("lit", "m", "one"), Tok("lit", "p", "one"), Tok("eol", "", "one")>>)

\* r".*\.log$"
Re_log ==
    Regex(TRUE, <<Tok("any", "", "star"), Tok("lit", ".", "one"), Tok("lit", "l", "one"),
                  Tok("lit", "o", "one"), Tok("lit", "g", "one"), Tok("eol", "", "one")>>)

\* r"a": matches every name that starts with an a
Re_a == Regex(TRUE, <<Tok("lit", "a", "one")>>)

\* r"*.log$": what tests/test_config.py configures; re.compile rejects it
Re_invalid == Regex(FALSE, <<>>)

\* ------------------------------------------------- the managed folder

\* set_regexes_list: the patterns that compile, in order; the others are
\* reported and dropped.
RECURSIVE set_regexes_list(_)
set_regexes_list(regexes_str) ==
    IF regexes_str = <<>> THEN <<>>
    ELSE (IF Head(regexes_str).valid THEN <<Head(regexes_str).toks>> ELSE <<>>)
         \o set_regexes_list(Tail(regexes_str))

\* An S3Config that keeps the prefix as configured.
S3Config_prefix_key_as_configured(prefix_key) == prefix_key

\* S3Config.__init__: one leading slash of the prefix is dropped.
S3Config_prefix_key(prefix_key) ==
    IF ~startswith(prefix_key, "/") THEN prefix_key ELSE Tail(prefix_key)

\* ManagedFolder.__init__: the fields the filter and the key need.
ManagedFolder(config) ==
    [ sync_priority   |-> config.priority,
      whitelist       |-> config.whitelist,
      whitelist_regex |-> config.whitelist_regex,
      whitelist_re    |-> set_regexes_list(config.whitelist_regex),
      blacklist_regex |-> config.blacklist_regex,
      blacklist_re    |-> set_regexes_list(config.blacklist_regex),
      prefix_key      |-> S3Config_prefix_key(config.prefix_key) ]

\* any(pattern.match(name) for pattern in patterns)
any_match(patterns, name) ==
    \E i \in 1..Len(patterns) : re_match(patterns[i], name)

\* name in list
in_list(name, list) == \E i \in 1..Len(list) : list[i] = name

\* A filter that consults the literal and regex whitelists before the blacklist.
file_is_to_watch_whitelist_first(f, file_name) ==
    LET _file_name == basename(file_name) IN
    IF f.whitelist_regex # <<>> /\ any_match(f.whitelist_re, _file_name) THEN TRUE
    ELSE IF f.whitelist # <<>> /\ in_list(_file_name, f.whitelist) THEN TRUE
    ELSE FALSE

\* ManagedFolder.file_is_to_watch
file_is_to_watch(f, file_name) ==
    LET _file_name == basename(file_name) IN
    IF f.blacklist_regex # <<>> /\ any_match(f.blacklist_re, _file_name) THEN FALSE
    ELSE IF f.whitelist_regex # <<>> /\ any_match(f.whitelist_re, _file_name) THEN TRUE
    ELSE IF f.whitelist # <<>> /\ in_list(_file_name, f.whitelist) THEN TRUE
    ELSE FALSE

\* S3ManagedFile.s3_path: the prefix, made to end with one slash and to start
\* with none, then the path relative to the folder's root (paths of the model
\* are relative to that root).
s3_path(f, path) ==
    LET p1 == IF endswith(f.prefix_key, "/") THEN f.prefix_key
              ELSE f.prefix_key \o <<"/">>
        p2 == IF startswith(p1, "/") THEN Tail(p1) ELSE p1
    IN p2 \o path

\* ---------------------------------------------------------- the state

VARIABLES
    folder,   \* the ManagedFolder built from the configuration
    fs,       \* the local filesystem: path -> file
    store,    \* the bucket: key -> object
    files,    \* the entity registry (folder.files / the files of init_files_jobs)
    nextId,   \* identity of the next entity object constructed
    now,      \* the clock, in seconds; it stamps every write
    last,     \* what the last operation was and how it ended
    sup,      \* the supervisor (Cerberus): its main thread and its observers
    db,       \* a MySQL job: its binlog directory, its dumps and its last dump
    observer, \* the Observer thread of the folder's Watcher
    conf,     \* a call of init_config: what it was given and how it ended
    shutdown  \* exit_gracefully: the main thread's position, the observer's queue

vars == <<folder, fs, store, files, nextId, now, last, sup, db, observer, conf,
          shutdown>>

\* The supervisor before Cerberus is constructed, and a job nothing has
\* configured: the state of these two where a folder or an entity is followed
\* on its own.
NoSup == [pc |-> [at |-> "none", i |-> 0]]

NoDb == [op |-> "none"]

\* The folder's observer thread where it is not followed.
NoObserver == "none"

\* No call of init_config is followed.
NoConf == [op |-> "none"]

\* The process is not shutting down and the observer's queue is empty.
NoShutdown == [pc |-> "none", event_queue |-> <<>>]

\* File contents: every byte string of at most MaxSize bytes.
Bytes == {"x", "y"}

Contents == UNION {[1..n -> Bytes] : n \in 0..MaxSize}

NoFile == [kind |-> "none", content |-> <<>>, mtime |-> 0]

Directory == [kind |-> "dir", content |-> <<>>, mtime |-> 0]

RegularFile(content, mtime) == [kind |-> "file", content |-> content, mtime |-> mtime]

S3Object(content, t) == [content |-> content, last_modified |-> t]

\* ObjectSummary.meta.data before the first load: None.
NoData == [loaded |-> FALSE, size |-> 0, last_modified |-> 0]

\* The classes of entity: files_autosync.File, s3_file_mgmt.S3ManagedFile (the
\* one files_management imports) and s3_handler.S3ManagedFile (the one
\* mysqldb_management imports).
Classes == {"File", "s3_file_mgmt.S3ManagedFile", "s3_handler.S3ManagedFile"}

\* The bucket of the configuration, and a bucket that exists and belongs to
\* someone else: every request on it is answered 403.
Bucket == "bucket"

OtherBucket == "etc"

\* A bucket whose policy lets the program read and write the configured keys
\* and no other key: CopyObject to a backup key is answered AccessDenied.
KeysOnlyBucket == "keys-only"

PRIORITY_TO_CLOUD == 1

PRIORITY_TO_LOCAL == 2

\* A freshly constructed entity: its ObjectSummary holds the bucket's name and
\* the key, and no data; no cached local-modified marker has been stored; the
\* priority attribute is the one File.__init__ starts with.
NewEntityIn(bucket, id, cls, key) ==
    [ id |-> id, cls |-> cls, bucket |-> bucket, key |-> key, data |-> NoData,
      marker |-> [set |-> FALSE, t |-> 0], priority |-> PRIORITY_TO_CLOUD ]

NewEntity(id, cls, key) == NewEntityIn(Bucket, id, cls, key)

\* keyisset: the key is in the mapping and its value is truthy.
keyisset(k, d) == k \in DOMAIN d /\ d[k] # ""

\* The definitions a File is built from, as far as the priority goes: none
\* given, cloud, local, and a word that is neither.
Definitions ==
    { [k \in {} |-> ""] } \cup { [Priority |-> v] : v \in {"cloud", "local", "both"} }

\* File.set_priority_from_definition, on the entity e built from definition
set_priority_from_definition(e, definition) ==
    IF keyisset("Priority", definition)
    THEN IF definition["Priority"] = "cloud" THEN [e EXCEPT !.priority = PRIORITY_TO_CLOUD]
         ELSE IF definition["Priority"] = "local"
         THEN [e EXCEPT !.priority = PRIORITY_TO_LOCAL]
         ELSE e
    ELSE e

\* File(file_name, file_def): the attribute starts at PRIORITY_TO_CLOUD and
\* is then set from the definition.
File(id, key, definition) ==
    set_priority_from_definition(NewEntity(id, "File", key), definition)

\* The store with obj at key k.
Put(s, k, obj) == [x \in (DOMAIN s) \cup {k} |-> IF x = k THEN obj ELSE s[x]]

\* The registry with entity e at path p.
Register(reg, p, e) == [x \in (DOMAIN reg) \cup {p} |-> IF x = p THEN e ELSE reg[x]]

\* The world an operation runs in and leaves behind: err is the exception it
\* raised ("none" when it returned), act the branch a reconcile took.
World == [fs |-> fs, store |-> store, files |-> files, err |-> "none", act |-> "NONE"]

Ok(w) == w.err = "none"

Raise(w, e) == [w EXCEPT !.err = e]

\* ------------------------------------------- the S3 object of an entity

\* ObjectSummary.load(): HEAD the key and keep the answer as the data.
object_load(w, p) ==
    LET key == w.files[p].key IN
    IF ~Ok(w) THEN w
    ELSE IF w.files[p].bucket = OtherBucket THEN Raise(w, "ClientError403")
    ELSE IF key \in DOMAIN w.store
    THEN [w EXCEPT !.files[p].data =
             [ loaded |-> TRUE, size |-> Len(w.store[key].content),
               last_modified |-> w.store[key].last_modified ]]
    ELSE Raise(w, "ClientError404")

\* Reading an attribute of the ObjectSummary (e_tag, size, last_modified):
\* the data is loaded the first time only and read from the copy afterwards.
autoload(w, p) ==
    IF ~Ok(w) \/ w.files[p].data.loaded THEN w ELSE object_load(w, p)

\* exists_in_s3: whether reading e_tag succeeds; a 404 is answered False.
exists_in_s3(w, p) == Ok(autoload(w, p))

\* An exists_in_s3 that answers False to every error of the store.
exists_in_s3_w_any_error_is_absent(w, p) ==
    LET w1 == autoload(w, p) IN
    IF Ok(w) /\ ~Ok(w1) THEN w ELSE w1

\* The world after exists_in_s3: the 404 is caught, every other error is
\* raised again.
exists_in_s3_w(w, p) ==
    LET w1 == autoload(w, p) IN
    IF Ok(w) /\ w1.err = "ClientError404" THEN w ELSE w1

\* exists: path.isfile
exists(w, p) == w.fs[p].kind = "file"

\* local_last_modified
local_last_modified(w, p) == w.fs[p].mtime

\* A size test that compares the modification times instead of the sizes.
local_and_remote_size_identical_by_time(w, p) ==
    IF ~exists(w, p) THEN FALSE
    ELSE w.fs[p].mtime = autoload(w, p).files[p].data.last_modified

\* local_and_remote_size_identical: the local size against self.object.size
local_and_remote_size_identical(w, p) ==
    IF ~exists(w, p) THEN FALSE
    ELSE Len(w.fs[p].content) = autoload(w, p).files[p].data.size

\* The world after s3_last_modified: the data is loaded again when the
\* object exists.
s3_last_modified_w(w, p) ==
    IF exists_in_s3(w, p) THEN object_load(exists_in_s3_w(w, p), p)
    ELSE exists_in_s3_w(w, p)

\* A download that opens the local path for writing and fetches nothing.
download_without_fetch(w, p) ==
    IF ~Ok(w) THEN w
    ELSE IF w.fs[p].kind = "dir" THEN Raise(w, "IsADirectoryError")
    ELSE [w EXCEPT !.fs[p] = RegularFile(<<>>, now)]

\* download: open the local path for writing (which creates or empties it),
\* then fetch the object into it.
download(w, p) ==
    LET key == w.files[p].key IN
    IF ~Ok(w) THEN w
    ELSE IF w.fs[p].kind = "dir" THEN Raise(w, "IsADirectoryError")
    ELSE IF w.files[p].bucket = OtherBucket
    THEN Raise([w EXCEPT !.fs[p] = RegularFile(<<>>, now)], "ClientError403")
    ELSE IF key \in DOMAIN w.store
    THEN [w EXCEPT !.fs[p] = RegularFile(w.store[key].content, now)]
    ELSE Raise([w EXCEPT !.fs[p] = RegularFile(<<>>, now)], "ClientError404")

\* A download to another path that opens it for writing and fetches nothing.
File_download_without_fetch(w, p, override_path) ==
    IF ~Ok(w) THEN w
    ELSE IF w.fs[override_path].kind = "dir" THEN Raise(w, "IsADirectoryError")
    ELSE [w EXCEPT !.fs[override_path] = RegularFile(<<>>, now)]

\* download(override_path): the path written is override_path when one is
\* given (the three classes have the same body).
File_download(w, p, override_path) ==
    LET key == w.files[p].key IN
    IF ~Ok(w) THEN w
    ELSE IF w.fs[override_path].kind = "dir" THEN Raise(w, "IsADirectoryError")
    ELSE IF w.files[p].bucket = OtherBucket
    THEN Raise([w EXCEPT !.fs[override_path] = RegularFile(<<>>, now)], "ClientError403")
    ELSE IF key \in DOMAIN w.store
    THEN [w EXCEPT !.fs[override_path] = RegularFile(w.store[key].content, now)]
    ELSE Raise([w EXCEPT !.fs[override_path] = RegularFile(<<>>, now)], "ClientError404")

\* The copy both create_s3_backup end with: the object at the key is copied
\* to key-<last_modified of the entity's data><extension of the local path>.
backup_copy(w, p) ==
    LET w1 == autoload(w, p)
        e == w1.files[p]
        bkey == e.key \o <<"-">> \o FloatStr(e.data.last_modified) \o splitext_ext(p)
    IN IF ~Ok(w1) THEN w1
       ELSE IF e.key \notin DOMAIN w1.store THEN Raise(w1, "ClientError404")
       ELSE IF e.bucket = KeysOnlyBucket THEN Raise(w1, "ClientError403")
       ELSE [w1 EXCEPT !.store = Put(@, bkey, S3Object(w1.store[e.key].content, now))]

\* files_autosync.File.create_s3_backup
File_create_s3_backup(w, p) ==
    IF ~Ok(w) THEN w ELSE backup_copy(w, p)

\* s3_file_mgmt.S3ManagedFile.create_s3_backup: a missing object is reported
\* and the copy goes on.
s3_file_mgmt_create_s3_backup(w, p) ==
    IF ~Ok(w) THEN w ELSE backup_copy(exists_in_s3_w(w, p), p)

\* s3_handler.S3ManagedFile.create_s3_backup: a missing object is reported
\* and the method returns.
s3_handler_create_s3_backup(w, p) ==
    IF ~Ok(w) THEN w
    ELSE IF ~exists_in_s3(w, p) THEN exists_in_s3_w(w, p)
    ELSE backup_copy(exists_in_s3_w(w, p), p)

\* An upload that leaves empty files out.
File_upload_skip_empty(w, p) ==
    IF ~Ok(w) THEN w
    ELSE IF w.fs[p].kind = "none" THEN Raise(w, "FileNotFoundError")
    ELSE IF w.fs[p].kind = "dir" THEN Raise(w, "IsADirectoryError")
    ELSE IF w.fs[p].content = <<>> THEN w
    ELSE IF w.files[p].bucket = OtherBucket THEN Raise(w, "S3UploadFailedError")
    ELSE [w EXCEPT !.store = Put(@, w.files[p].key, S3Object(w.fs[p].content, now))]

\* An upload that sends none of the file's bytes.
File_upload_sends_nothing(w, p) ==
    IF ~Ok(w) THEN w
    ELSE IF w.fs[p].kind = "none" THEN Raise(w, "FileNotFoundError")
    ELSE IF w.fs[p].kind = "dir" THEN Raise(w, "IsADirectoryError")
    ELSE IF w.files[p].bucket = OtherBucket THEN Raise(w, "S3UploadFailedError")
    ELSE [w EXCEPT !.store = Put(@, w.files[p].key, S3Object(<<>>, now))]

\* files_autosync.File.upload and s3_file_mgmt.S3ManagedFile.upload (the same
\* body): the local file is opened and sent to the key.
File_upload(w, p) ==
    IF ~Ok(w) THEN w
    ELSE IF w.fs[p].kind = "none" THEN Raise(w, "FileNotFoundError")
    ELSE IF w.fs[p].kind = "dir" THEN Raise(w, "IsADirectoryError")
    ELSE IF w.files[p].bucket = OtherBucket THEN Raise(w, "S3UploadFailedError")
    ELSE [w EXCEPT !.store = Put(@, w.files[p].key, S3Object(w.fs[p].content, now))]

\* s3_handler.S3ManagedFile.upload: an empty file is skipped; an existing
\* object is backed up first; an OSError is logged and swallowed.
s3_handler_upload(w, p) ==
    IF ~Ok(w) THEN w
    ELSE IF w.fs[p].kind = "none" THEN w
    ELSE IF w.fs[p].kind = "file" /\ Len(w.fs[p].content) = 0 THEN w
    ELSE LET w1 == IF exists_in_s3(w, p) THEN s3_handler_create_s3_backup(w, p)
                   ELSE exists_in_s3_w(w, p)
         IN IF ~Ok(w1) \/ w.fs[p].kind = "dir" THEN w1
            ELSE [w1 EXCEPT !.store =
                     Put(@, w1.files[p].key, S3Object(w1.fs[p].content, now))]

\* file.upload() of an entity, by its class
upload(w, p) ==
    IF w.files[p].cls = "s3_handler.S3ManagedFile" THEN s3_handler_upload(w, p)
    ELSE File_upload(w, p)

\* file.create_s3_backup() of an entity, by its class
create_s3_backup(w, p) ==
    CASE w.files[p].cls = "File" -> File_create_s3_backup(w, p)
      [] w.files[p].cls = "s3_file_mgmt.S3ManagedFile" -> s3_file_mgmt_create_s3_backup(w, p)
      [] OTHER -> s3_handler_create_s3_backup(w, p)

\* The _local_last_modified setter: it assigns to the property it is the
\* setter of, so it calls itself until the interpreter raises RecursionError;
\* nothing is stored.
set_local_last_modified(w, p, modified) ==
    IF ~Ok(w) THEN w ELSE Raise(w, "RecursionError")

\* ------------------------------------------------------ reconciliation

Act(w, a) == [w EXCEPT !.act = a]

\* A reconcile that takes the local side when the two modification times
\* are equal.
handle_both_files_present_ties_upload(w, p) ==
    LET w1 == s3_last_modified_w(w, p)
        s3_last_modified == w1.files[p].data.last_modified
    IN
    IF ~Ok(w1) THEN w1
    ELSE IF /\ s3_last_modified > local_last_modified(w1, p)
            /\ ~local_and_remote_size_identical(w1, p)
    THEN LET w2 == download(Act(w1, "DOWNLOAD"), p)
         IN set_local_last_modified(w2, p, local_last_modified(w2, p))
    ELSE IF ~local_and_remote_size_identical(w1, p)
    THEN object_load(upload(create_s3_backup(Act(w1, "BACKUP_THEN_UPLOAD"), p), p), p)
    ELSE Act(w1, "NONE")

\* handle_both_files_present: both sides exist and the sizes were found to
\* differ.  Every read of s3_last_modified loads the object's data again.
handle_both_files_present(w, p) ==
    LET w1 == s3_last_modified_w(w, p)
        s3_last_modified == w1.files[p].data.last_modified
    IN
    IF ~Ok(w1) THEN w1
    ELSE IF s3_last_modified = local_last_modified(w1, p) THEN Act(w1, "NONE")
    ELSE IF /\ s3_last_modified > local_last_modified(w1, p)
            /\ ~local_and_remote_size_identical(w1, p)
    THEN LET w2 == download(Act(w1, "DOWNLOAD"), p)
         IN set_local_last_modified(w2, p, local_last_modified(w2, p))
    ELSE IF /\ local_last_modified(w1, p) > s3_last_modified
            /\ ~local_and_remote_size_identical(w1, p)
    THEN object_load(upload(create_s3_backup(Act(w1, "BACKUP_THEN_UPLOAD"), p), p), p)
    ELSE Act(w1, "NONE")

\* check_s3_changes
check_s3_changes(w, p) ==
    LET w0 == exists_in_s3_w(w, p) IN
    IF /\ exists(w, p)
       /\ exists_in_s3(w, p)
       /\ ~local_and_remote_size_identical(w0, p)
    THEN handle_both_files_present(w0, p)
    ELSE IF exists_in_s3(w, p) /\ ~exists(w, p)
    THEN download(Act(w0, "DOWNLOAD_INITIAL"), p)
    ELSE IF exists(w, p) /\ ~exists_in_s3(w, p)
    THEN object_load(upload(Act(w0, "UPLOAD_INITIAL"), p), p)
    ELSE Act(w0, "NONE")

\* ------------------------------------------------- the event handlers

\* A watchdog event: the path it is about and whether that is a directory.
Event(src_path, is_directory) == [src_path |-> src_path, is_directory |-> is_directory]

\* What get_file_from_event answers: the world (the registry may have grown)
\* and whether a file came back (None otherwise).
Found(w) == [w |-> w, file |-> TRUE]

NotFound(w) == [w |-> w, file |-> FALSE]

\* A lookup that constructs a new entity on every event.
get_file_from_event_always_new(w, event) ==
    IF event.is_directory THEN NotFound(w)
    ELSE IF ~file_is_to_watch(folder, event.src_path) THEN NotFound(w)
    ELSE Found([w EXCEPT !.files =
                   Register(@, event.src_path,
                            NewEntity(nextId, "s3_file_mgmt.S3ManagedFile",
                                      s3_path(folder, event.src_path)))])

\* A lookup that resolves registered paths only and registers nothing.
get_file_from_event_registered_only(w, event) ==
    IF event.is_directory THEN NotFound(w)
    ELSE IF ~file_is_to_watch(folder, event.src_path) THEN NotFound(w)
    ELSE IF event.src_path \in DOMAIN w.files THEN Found(w)
    ELSE NotFound(w)

\* get_file_from_event: resolve the entity of the event's path, or register it
\* (files_management constructs the S3ManagedFile of s3_file_mgmt).
get_file_from_event(w, event) ==
    IF event.is_directory THEN NotFound(w)
    ELSE IF ~file_is_to_watch(folder, event.src_path) THEN NotFound(w)
    ELSE IF event.src_path \in DOMAIN w.files THEN Found(w)
    ELSE Found([w EXCEPT !.files =
                   Register(@, event.src_path,
                            NewEntity(nextId, "s3_file_mgmt.S3ManagedFile",
                                      s3_path(folder, event.src_path)))])

\* A create handler that uploads the file at once and swallows a failure.
on_created_uploads(w, event) ==
    LET got == get_file_from_event(w, event)
        w1 == IF ~got.file THEN got.w ELSE upload(got.w, event.src_path)
    IN IF Ok(w1) THEN w1 ELSE got.w

\* Handler.on_created: the entity is resolved or registered, and announced.
on_created(w, event) ==
    get_file_from_event(w, event).w

\* A close handler that reconciles instead of uploading.
on_closed_reconciles(w, event) ==
    LET got == get_file_from_event(w, event) IN
    IF ~got.file THEN got.w ELSE check_s3_changes(got.w, event.src_path)

\* Handler.on_closed
on_closed(w, event) ==
    LET got == get_file_from_event(w, event) IN
    IF ~got.file THEN got.w ELSE upload(got.w, event.src_path)

\* A delete handler that moves the object to its backup key.
on_deleted_moves(w, event) ==
    LET got == get_file_from_event(w, event)
        w1 == IF ~got.file THEN got.w ELSE create_s3_backup(got.w, event.src_path)
    IN IF ~got.file \/ ~Ok(w1) THEN w1
       ELSE [w1 EXCEPT !.store =
                [k \in (DOMAIN w1.store) \ {w1.files[event.src_path].key} |-> w1.store[k]]]

\* Handler.on_deleted
on_deleted(w, event) ==
    LET got == get_file_from_event(w, event) IN
    IF ~got.file THEN got.w ELSE create_s3_backup(got.w, event.src_path)

\* ------------------------------------------------------------ actions

\* The paths of the watched folder that the model follows, relative to its
\* root: two files, a sub-directory, and a file inside it.
Paths == {Str_a_txt, Str_a_txt_tmp, Str_sub, Str_sub_a_txt}

DirPaths == {Str_sub}

\* The files the environment writes and removes while the program runs.
WrittenPaths == {Str_a_txt}

\* The operation's world becomes the state; the clock advances.
Commit(w, op, p) ==
    /\ fs' = w.fs
    /\ store' = w.store
    /\ files' = w.files
    /\ nextId' = IF \E q \in DOMAIN w.files : w.files[q].id = nextId
                 THEN nextId + 1 ELSE nextId
    /\ now' = now + 1
    /\ last' = [op |-> op, path |-> p, act |-> w.act, err |-> w.err]
    /\ UNCHANGED <<folder, sup, db, observer, conf, shutdown>>

\* The observer thread dispatches a created event.
OnCreated(p) ==
    /\ now < MaxTime
    /\ Commit(on_created(World, Event(p, p \in DirPaths)), "on_created", p)

\* The observer thread dispatches a closed event (files only).
OnClosed(p) ==
    /\ now < MaxTime
    /\ p \notin DirPaths
    /\ Commit(on_closed(World, Event(p, FALSE)), "on_closed", p)

\* The observer thread dispatches a deleted event.
OnDeleted(p) ==
    /\ now < MaxTime
    /\ Commit(on_deleted(World, Event(p, p \in DirPaths)), "on_deleted", p)

\* Some process writes a local file.
LocalWrite(p, c) ==
    /\ now < MaxTime
    /\ Commit([World EXCEPT !.fs[p] = RegularFile(c, now)], "local_write", p)

\* Some process removes a local file.
LocalRemove(p) ==
    /\ now < MaxTime
    /\ fs[p].kind = "file"
    /\ Commit([World EXCEPT !.fs[p] = NoFile], "local_remove", p)

\* Another writer of the bucket replaces the object at the entity's key.
RemoteWrite(p, c) ==
    /\ now < MaxTime
    /\ p \in DOMAIN files
    /\ Commit([World EXCEPT !.store = Put(@, files[p].key, S3Object(c, now))],
              "remote_write", p)

\* One pass of the S3 watchdog over an entity.
Reconcile(p) ==
    /\ now < MaxTime
    /\ p \in DOMAIN files
    /\ Commit(check_s3_changes(World, p), "check_s3_changes", p)

\* ----------------------------------- specification: the folder's events

EmptyFunction == [x \in {} |-> x]

\* The folder of the filter invariant: *.tmp excluded, *.log and the
\* literal names a.txt and sub included; and one whose include regex alone
\* would let a.txt.tmp in.
EventConfigs ==
    { [ priority |-> "local", whitelist |-> <<Str_a_txt, Str_sub>>,
        whitelist_regex |-> <<Re_log>>, blacklist_regex |-> <<Re_tmp>>,
        prefix_key |-> Str_pfx ],
      [ priority |-> "local", whitelist |-> <<>>,
        whitelist_regex |-> <<Re_a>>, blacklist_regex |-> <<Re_tmp>>,
        prefix_key |-> Str_slash_pfx ] }

\* The daemon has started: the registry is empty; the folder may hold files
\* already, and the bucket objects of an earlier run.
Init ==
    /\ folder \in {ManagedFolder(c) : c \in EventConfigs}
    /\ fs \in { [p \in Paths |->
                   IF p \in DirPaths THEN Directory
                   ELSE IF p = Str_a_txt THEN f
                   ELSE RegularFile(<<"x">>, 0)] :
                f \in {NoFile, RegularFile(<<"x">>, 0)} }
    /\ store \in { EmptyFunction,
                   [k \in {s3_path(folder, Str_a_txt)} |-> S3Object(<<"y">>, 0)] }
    /\ files = EmptyFunction
    /\ nextId = 1
    /\ now = 1
    /\ last = [op |-> "init", path |-> <<>>, act |-> "NONE", err |-> "none"]
    /\ sup = NoSup
    /\ db = NoDb
    /\ observer = NoObserver
    /\ conf = NoConf
    /\ shutdown = NoShutdown

Next ==
    \/ \E p \in Paths : OnCreated(p)
    \/ \E p \in Paths : OnClosed(p)
    \/ \E p \in Paths : OnDeleted(p)
    \/ \E p \in WrittenPaths, c \in Contents : LocalWrite(p, c)
    \/ \E p \in WrittenPaths : LocalRemove(p)

Spec == Init /\ [][Next]_vars

\* ------------------------------------- specification: the S3 watchdog

\* The configuration of the watchdog's entity: the file a.txt, kept under the
\* prefix p.
SyncConfig ==
    [ priority |-> "local", whitelist |-> <<Str_a_txt>>, whitelist_regex |-> <<>>,
      blacklist_regex |-> <<>>, prefix_key |-> Str_pfx ]

\* Modification times of what exists before the program starts.
InitTimes == {0, 1}

\* The classes of entity check_s3_changes is called with: File
\* (init_s3_watch_dog) and the S3ManagedFile of s3_handler
\* (auto_store_index_files).
SyncClasses == {"File", "s3_handler.S3ManagedFile"}

\* One entity has been constructed and has loaded nothing yet; its local file
\* and its object each either do not exist or hold any content, written at
\* any time.
SyncInit ==
    /\ folder = ManagedFolder(SyncConfig)
    /\ fs \in { [p \in Paths |->
                   IF p \in DirPaths THEN Directory
                   ELSE IF p = Str_a_txt THEN f ELSE NoFile] :
                f \in {NoFile} \cup
                      {RegularFile(c, t) : c \in Contents, t \in InitTimes} }
    /\ store \in {EmptyFunction} \cup
                 { [k \in {s3_path(folder, Str_a_txt)} |-> S3Object(c, t)] :
                   c \in Contents, t \in InitTimes }
    /\ files \in { [p \in {Str_a_txt} |-> e] :
                   e \in { File(0, s3_path(folder, Str_a_txt), d) : d \in Definitions }
                      \cup { NewEntity(0, cls, s3_path(folder, Str_a_txt)) :
                              cls \in SyncClasses \ {"File"} } }
    /\ nextId = 1
    /\ now = 2
    /\ last = [op |-> "init", path |-> <<>>, act |-> "NONE", err |-> "none"]
    /\ sup = NoSup
    /\ db = NoDb
    /\ observer = NoObserver
    /\ conf = NoConf
    /\ shutdown = NoShutdown

SyncNext ==
    \/ \E p \in WrittenPaths : Reconcile(p)
    \/ \E p \in WrittenPaths, c \in Contents : LocalWrite(p, c)
    \/ \E p \in WrittenPaths : LocalRemove(p)
    \/ \E p \in WrittenPaths, c \in Contents : RemoteWrite(p, c)

SpecSync == SyncInit /\ [][SyncNext]_vars

\* ------------------------------------ specification: the filter alone

\* Configurations of the filter: every combination of a blacklist, a regex
\* whitelist and a literal whitelist, empty ones and ones holding a pattern
\* that does not compile included.
FilterConfigs ==
    { [ priority |-> "local", whitelist |-> wl, whitelist_regex |-> wr,
        blacklist_regex |-> bl, prefix_key |-> Str_pfx ] :
      wl \in {<<>>, <<Str_a_txt>>, <<Str_a_txt, Str_sub>>},
      wr \in {<<>>, <<Re_log>>, <<Re_a>>, <<Re_invalid>>, <<Re_invalid, Re_log>>},
      bl \in {<<>>, <<Re_tmp>>, <<Re_invalid>>, <<Re_a, Re_tmp>>} }

\* Candidate paths handed to the filter.
FilterNames ==
    {Str_a_txt, Str_a_txt_tmp, Str_b_log, Str_sub, Str_sub_a_txt, Str_c_bak}

FilterInit ==
    /\ folder \in {ManagedFolder(c) : c \in FilterConfigs}
    /\ fs = [p \in Paths |-> NoFile]
    /\ store = EmptyFunction
    /\ files = EmptyFunction
    /\ nextId = 1
    /\ now = 0
    /\ last = [op |-> "init", path |-> <<>>, act |-> "NONE", err |-> "none"]
    /\ sup = NoSup
    /\ db = NoDb
    /\ observer = NoObserver
    /\ conf = NoConf
    /\ shutdown = NoShutdown

\* folder.file_is_to_watch(name) is called and its answer kept.
FileIsToWatch(name) ==
    /\ last' = [ op |-> "file_is_to_watch", path |-> name,
                 act |-> IF file_is_to_watch(folder, name) THEN "True" ELSE "False",
                 err |-> "none" ]
    /\ UNCHANGED <<folder, fs, store, files, nextId, now, sup, db, observer, conf, shutdown>>

FilterNext == \E name \in FilterNames : FileIsToWatch(name)

SpecFilter == FilterInit /\ [][FilterNext]_vars

\* -------------------------------------------- the supervisor (Cerberus)

\* The watched directories of a configuration: the folders of "folders", and
\* for every job of "mysqlDb" its binlog directory and its dumps directory.
FolderUnit(n) == <<"folder", n>>

BinUnit(j) == <<"bin", j>>

DumpsUnit(j) == <<"dumps", j>>

\* Configurations: two folders (the second with auto_create) and one job; one
\* folder and two jobs.
SupConfigs ==
    { [folders |-> <<"f1", "f2">>, auto_create |-> <<FALSE, TRUE>>, jobs |-> <<"j1">>],
      [folders |-> <<"f1">>, auto_create |-> <<FALSE>>, jobs |-> <<"j1", "j2">>] }

Units(cfg) ==
    {FolderUnit(cfg.folders[i]) : i \in 1..Len(cfg.folders)}
    \cup {BinUnit(cfg.jobs[j]) : j \in 1..Len(cfg.jobs)}
    \cup {DumpsUnit(cfg.jobs[j]) : j \in 1..Len(cfg.jobs)}

\* x in a list
InSeq(seq, x) == \E i \in 1..Len(seq) : seq[i] = x

\* list.remove(x): the list without the first x; ValueError when x is absent.
RECURSIVE ListRemove(_, _)
ListRemove(seq, x) ==
    IF seq = <<>> THEN <<>>
    ELSE IF Head(seq) = x THEN Tail(seq)
    ELSE <<Head(seq)>> \o ListRemove(Tail(seq), x)

\* The exceptions Watcher.run can end with on an observer that is not to be
\* started for the first time in an existing directory.
RunErrors == {"FileNotFoundError", "RuntimeError"}

\* Cerberus.__init__ has run: the handlers of SIGINT and SIGTERM are
\* installed, observers is empty, and run() is about to build the folders.
\* obs is the state of each Watcher's Observer thread: "new" until started,
\* then "alive", then "dead" once it has ended; joined tells that stop() and
\* join() were called on it; started lists the observers in the order they
\* were started; log lists what exit_gracefully did; handlers tells how many
\* event handlers are scheduled on the observer's watch of the directory:
\* none, one, or many (two or more).
Cerberus(cfg, paths) ==
    [ cfg |-> cfg,
      pc |-> [at |-> "init_folders_jobs", i |-> 1],
      path |-> paths,
      obs |-> [u \in Units(cfg) |-> "new"],
      handlers |-> [u \in Units(cfg) |-> "none"],
      joined |-> [u \in Units(cfg) |-> FALSE],
      observers |-> <<>>,
      started |-> <<>>,
      log |-> <<>>,
      signal_at |-> "none",
      raised |-> "none",
      exit_code |-> -1 ]

Goto(s, at, i) == [s EXCEPT !.pc = [at |-> at, i |-> i]]

\* An exception no handler of the main thread catches: the interpreter prints
\* the traceback and the process ends with status 1.
Uncaught(s, e) ==
    [s EXCEPT !.pc = [at |-> "crashed", i |-> 0], !.raised = e, !.exit_code = 1]

\* The part of the daemon's life the main thread is in.
Phase(s) ==
    CASE s.pc.at \in {"init_folders_jobs", "init_mysqldb_jobs"} -> "CONSTRUCTING"
      [] s.pc.at \in {"run_folder", "run_folder_append", "init_db_bin",
                      "init_db_bin_append", "init_db_dumps",
                      "init_db_dumps_append"} -> "STARTING"
      [] s.pc.at \in {"cycle_over_folders", "cycle_over_folders_append",
                      "cycle_over_db_jobs", "cycle_over_db_jobs_append",
                      "sleep"} -> "RUNNING"
      [] s.pc.at = "exited" -> "EXITED"
      [] s.pc.at = "crashed" -> "CRASHED"
      [] OTHER -> "NONE"

\* The end of ManagedFolder.__init__: a missing directory is created when
\* create is set, and is an OSError otherwise.
ManagedFolder_path_check(s, u, create) ==
    IF s.path[u] THEN s
    ELSE IF create THEN [s EXCEPT !.path[u] = TRUE]
    ELSE Uncaught(s, "OSError")

\* The first two statements of Watcher.run and of BinLogsWatcher.run: a new
\* handler object is constructed and scheduled on the directory, recursive;
\* the observer keeps every handler scheduled on the same directory.
Watcher_schedule(s, u) ==
    [s EXCEPT !.handlers[u] = IF @ = "none" THEN "one" ELSE "many"]

\* Watcher.run on unit u: schedule the handler and start the observer. A
\* thread can be started once: an observer that was started before raises
\* RuntimeError (or, its directory missing, the error e of its emitter); a
\* new observer raises FileNotFoundError when its directory is missing and
\* is alive otherwise.
Watcher_run(s, u, e) ==
    LET s1 == Watcher_schedule(s, u) IN
    IF s.obs[u] = "new"
    THEN IF s.path[u]
         THEN [s |-> [s1 EXCEPT !.obs[u] = "alive", !.started = Append(@, u)],
               err |-> "none"]
         ELSE [s |-> s1, err |-> "FileNotFoundError"]
    ELSE IF s.path[u] THEN [s |-> s1, err |-> "RuntimeError"]
    ELSE [s |-> s1, err |-> e]

\* observer.stop(); observer.join(): the thread ends, and stop() takes every
\* handler and watch off the observer.
stop_and_join(s, u) ==
    [s EXCEPT !.obs[u] = IF @ = "alive" THEN "dead" ELSE @, !.joined[u] = TRUE,
              !.handlers[u] = "none"]

\* if observer not in observers: observers.append(observer)
append_if_absent(s, u) ==
    IF InSeq(s.observers, u) THEN s ELSE [s EXCEPT !.observers = Append(@, u)]

\* A pass whose failed restart tears every observer down.
cycle_over_folders_body_stops_all(s, u, e) ==
    IF s.obs[u] = "alive" THEN [s |-> s, err |-> "alive"]
    ELSE LET r == Watcher_run(s, u, e) IN
         IF r.err = "RuntimeError"
         THEN [s |-> [r.s EXCEPT
                        !.obs = [v \in DOMAIN @ |-> IF @[v] = "alive" THEN "dead" ELSE @[v]],
                        !.joined = [v \in DOMAIN @ |-> TRUE],
                        !.observers = <<>>],
               err |-> r.err]
         ELSE r

\* A pass that only logs a restart's RuntimeError.
cycle_over_folders_body_only_logs(s, u, e) ==
    IF s.obs[u] = "alive" THEN [s |-> s, err |-> "alive"]
    ELSE Watcher_run(s, u, e)

\* The body of cycle_over_folders for one folder, up to the append: [s, err]
\* with err "none" when the observer was just started.
cycle_over_folders_body(s, u, e) ==
    IF s.obs[u] = "alive" THEN [s |-> s, err |-> "alive"]
    ELSE LET r == Watcher_run(s, u, e) IN
         IF r.err = "RuntimeError"
         THEN [s |-> [stop_and_join(r.s, u) EXCEPT !.observers = ListRemove(@, u)],
               err |-> r.err]
         ELSE r

\* The body of cycle_over_db_jobs for one job, up to the append: only the
\* binlog directory is looked at, and every exception is logged and dropped.
cycle_over_db_jobs_body(s, j, e) ==
    IF s.obs[BinUnit(j)] = "alive" THEN [s |-> s, err |-> "alive"]
    ELSE Watcher_run(s, BinUnit(j), e)

\* cycle_over_folders, from folder i on, run without interruption; ch gives
\* the emitter's error for each unit.
RECURSIVE cycle_over_folders(_, _, _)
cycle_over_folders(s, i, ch) ==
    IF i > Len(s.cfg.folders) THEN s
    ELSE LET u == FolderUnit(s.cfg.folders[i])
             r == cycle_over_folders_body(s, u, ch[u])
         IN cycle_over_folders(IF r.err = "none" THEN append_if_absent(r.s, u) ELSE r.s,
                               i + 1, ch)

RECURSIVE cycle_over_db_jobs(_, _, _)
cycle_over_db_jobs(s, j, ch) ==
    IF j > Len(s.cfg.jobs) THEN s
    ELSE LET u == BinUnit(s.cfg.jobs[j])
             r == cycle_over_db_jobs_body(s, s.cfg.jobs[j], ch[u])
         IN cycle_over_db_jobs(IF r.err = "none" THEN append_if_absent(r.s, u) ELSE r.s,
                               j + 1, ch)

\* final_dumps_db_jobs: a dump from the binary logs for every job, in order.
RECURSIVE final_dumps_db_jobs(_, _)
final_dumps_db_jobs(s, j) ==
    IF j > Len(s.cfg.jobs) THEN s
    ELSE final_dumps_db_jobs(
           [s EXCEPT !.log = Append(@, [ev |-> "final_dump", who |-> s.cfg.jobs[j]])],
           j + 1)

\* graceful_observers_close, from the i-th observer of the list on.
RECURSIVE graceful_observers_close(_, _)
graceful_observers_close(s, i) ==
    IF i > Len(s.observers) THEN s
    ELSE LET u == s.observers[i] IN
         graceful_observers_close(
           [stop_and_join(s, u) EXCEPT
              !.log = @ \o <<[ev |-> "stop", who |-> u], [ev |-> "join", who |-> u]>>],
           i + 1)

Logged(s, ev) == [s EXCEPT !.log = Append(@, [ev |-> ev, who |-> "all"])]

\* A signal handler that closes the observers before the dumps and the pass.
exit_gracefully_close_first(s, ch) ==
    LET s1 == graceful_observers_close(s, 1)
        s2 == final_dumps_db_jobs(s1, 1)
        s3 == Logged(cycle_over_db_jobs(s2, 1, ch), "cycle_over_db_jobs")
        s4 == Logged(cycle_over_folders(s3, 1, ch), "cycle_over_folders")
    IN [s4 EXCEPT !.pc = [at |-> "exited", i |-> 0], !.exit_code = 0,
                  !.signal_at = s.pc.at]

\* Cerberus.exit_gracefully, the handler of SIGINT and SIGTERM: the final
\* dumps, a pass over the jobs and one over the folders, the close of the
\* observers, exit(0).
exit_gracefully(s, ch) ==
    LET s1 == final_dumps_db_jobs(s, 1)
        s2 == Logged(cycle_over_db_jobs(s1, 1, ch), "cycle_over_db_jobs")
        s3 == Logged(cycle_over_folders(s2, 1, ch), "cycle_over_folders")
        s4 == graceful_observers_close(s3, 1)
    IN [s4 EXCEPT !.pc = [at |-> "exited", i |-> 0], !.exit_code = 0,
                  !.signal_at = s.pc.at]

\* Where the main thread goes after the i-th element of a loop over n.
NextOf(s, at, i, n, after) ==
    IF i < n THEN Goto(s, at, i + 1) ELSE Goto(s, after, 1)

\* ------------------------------------ specification: the supervisor

SupOthersUnchanged ==
    UNCHANGED <<folder, fs, store, files, nextId, now, last, db, observer, conf, shutdown>>

\* init_folders_jobs: ManagedFolder(folder_name, folder_config, create=auto_create)
InitFoldersJobs ==
    /\ sup.pc.at = "init_folders_jobs"
    /\ LET i == sup.pc.i
           s1 == ManagedFolder_path_check(sup, FolderUnit(sup.cfg.folders[i]),
                                          sup.cfg.auto_create[i])
       IN sup' = IF s1.pc.at = "crashed" THEN s1
                 ELSE NextOf(s1, "init_folders_jobs", i, Len(sup.cfg.folders),
                             "init_mysqldb_jobs")
    /\ SupOthersUnchanged

\* init_mysqldb_jobs: ManagedMySQL(job_name, job_config) builds the
\* BinLogFolder (no create) and the dumps folder (create=True).
InitMysqldbJobs ==
    /\ sup.pc.at = "init_mysqldb_jobs"
    /\ LET j == sup.pc.i
           s1 == ManagedFolder_path_check(sup, BinUnit(sup.cfg.jobs[j]), FALSE)
           s2 == ManagedFolder_path_check(s1, DumpsUnit(sup.cfg.jobs[j]), TRUE)
       IN sup' = IF s1.pc.at = "crashed" THEN s1
                 ELSE NextOf(s2, "init_mysqldb_jobs", j, Len(sup.cfg.jobs), "run_folder")
    /\ SupOthersUnchanged

\* run(): folder.watcher.run() for a folder, outside any try.
RunFolder ==
    /\ sup.pc.at = "run_folder"
    /\ \E e \in RunErrors :
         LET r == Watcher_run(sup, FolderUnit(sup.cfg.folders[sup.pc.i]), e) IN
         sup' = IF r.err = "none" THEN Goto(r.s, "run_folder_append", sup.pc.i)
                ELSE Uncaught(r.s, r.err)
    /\ SupOthersUnchanged

\* The append that follows a start, wherever the main thread made the start.
AppendObserver ==
    /\ sup.pc.at \in {"run_folder_append", "init_db_bin_append", "init_db_dumps_append",
                      "cycle_over_folders_append", "cycle_over_db_jobs_append"}
    /\ LET i == sup.pc.i
           nf == Len(sup.cfg.folders)
           nj == Len(sup.cfg.jobs)
       IN sup' =
            CASE sup.pc.at = "run_folder_append" ->
                   NextOf([sup EXCEPT !.observers = Append(@, FolderUnit(sup.cfg.folders[i]))],
                          "run_folder", i, nf, "init_db_bin")
              [] sup.pc.at = "init_db_bin_append" ->
                   Goto([sup EXCEPT !.observers = Append(@, BinUnit(sup.cfg.jobs[i]))],
                        "init_db_dumps", i)
              [] sup.pc.at = "init_db_dumps_append" ->
                   NextOf([sup EXCEPT !.observers = Append(@, DumpsUnit(sup.cfg.jobs[i]))],
                          "init_db_bin", i, nj, "cycle_over_folders")
              [] sup.pc.at = "cycle_over_folders_append" ->
                   NextOf(append_if_absent(sup, FolderUnit(sup.cfg.folders[i])),
                          "cycle_over_folders", i, nf, "cycle_over_db_jobs")
              [] OTHER ->
                   NextOf(append_if_absent(sup, BinUnit(sup.cfg.jobs[i])),
                          "cycle_over_db_jobs", i, nj, "sleep")
    /\ SupOthersUnchanged

\* init_db_jobs: the watcher of the binlog directory, then the one of the
\* dumps directory, each in a try that drops FileNotFoundError.
InitDbJobs ==
    /\ sup.pc.at \in {"init_db_bin", "init_db_dumps"}
    /\ \E e \in RunErrors :
         LET j == sup.pc.i
             bin == sup.pc.at = "init_db_bin"
             u == IF bin THEN BinUnit(sup.cfg.jobs[j]) ELSE DumpsUnit(sup.cfg.jobs[j])
             r == Watcher_run(sup, u, e)
         IN sup' =
              IF r.err = "none"
              THEN Goto(r.s, IF bin THEN "init_db_bin_append" ELSE "init_db_dumps_append", j)
              ELSE IF r.err = "FileNotFoundError"
              THEN IF bin THEN Goto(r.s, "init_db_dumps", j)
                   ELSE NextOf(r.s, "init_db_bin", j, Len(sup.cfg.jobs), "cycle_over_folders")
              ELSE Uncaught(r.s, r.err)
    /\ SupOthersUnchanged

\* The main loop's cycle_over_folders, one folder at a time.
CycleOverFolders ==
    /\ sup.pc.at = "cycle_over_folders"
    /\ \E e \in RunErrors :
         LET i == sup.pc.i
             r == cycle_over_folders_body(sup, FolderUnit(sup.cfg.folders[i]), e)
         IN sup' = IF r.err = "none" THEN Goto(r.s, "cycle_over_folders_append", i)
                   ELSE NextOf(r.s, "cycle_over_folders", i, Len(sup.cfg.folders),
                               "cycle_over_db_jobs")
    /\ SupOthersUnchanged

\* The main loop's cycle_over_db_jobs, one job at a time.
CycleOverDbJobs ==
    /\ sup.pc.at = "cycle_over_db_jobs"
    /\ \E e \in RunErrors :
         LET j == sup.pc.i
             r == cycle_over_db_jobs_body(sup, sup.cfg.jobs[j], e)
         IN sup' = IF r.err = "none" THEN Goto(r.s, "cycle_over_db_jobs_append", j)
                   ELSE NextOf(r.s, "cycle_over_db_jobs", j, Len(sup.cfg.jobs), "sleep")
    /\ SupOthersUnchanged

\* sleep(1), and the loop starts over.
Sleep ==
    /\ sup.pc.at = "sleep"
    /\ sup' = Goto(sup, "cycle_over_folders", 1)
    /\ SupOthersUnchanged

\* SIGINT or SIGTERM is delivered once folders_jobs and db_jobs are set: the
\* main thread runs exit_gracefully between two of its statements.  (The
\* emitter's error is a choice only for an observer that has ended and whose
\* directory is missing.)
Signal ==
    /\ Phase(sup) \in {"STARTING", "RUNNING"}
    /\ \E ch \in [Units(sup.cfg) -> RunErrors] :
         /\ \A u \in Units(sup.cfg) :
              ch[u] = "FileNotFoundError" => (sup.obs[u] = "dead" /\ ~sup.path[u])
         /\ sup' = exit_gracefully(sup, ch)
    /\ SupOthersUnchanged

\* An observer thread ends: a handler raised while it dispatched an event,
\* or its thread was stopped from outside.
ObserverDies(u) ==
    /\ Phase(sup) \in {"STARTING", "RUNNING"}
    /\ sup.obs[u] = "alive"
    /\ sup' = [sup EXCEPT !.obs[u] = "dead"]
    /\ SupOthersUnchanged

\* A directory is created, or removed, by another process.
PathAppears(u) ==
    /\ Phase(sup) \in {"CONSTRUCTING", "STARTING", "RUNNING"}
    /\ ~sup.path[u]
    /\ sup' = [sup EXCEPT !.path[u] = TRUE]
    /\ SupOthersUnchanged

PathVanishes(u) ==
    /\ Phase(sup) \in {"CONSTRUCTING", "STARTING", "RUNNING"}
    /\ sup.path[u]
    /\ sup' = [sup EXCEPT !.path[u] = FALSE]
    /\ SupOthersUnchanged

SupInit ==
    /\ folder = ManagedFolder(SyncConfig)
    /\ fs = [p \in Paths |-> NoFile]
    /\ store = EmptyFunction
    /\ files = EmptyFunction
    /\ nextId = 1
    /\ now = 0
    /\ last = [op |-> "init", path |-> <<>>, act |-> "NONE", err |-> "none"]
    /\ db = NoDb
    /\ observer = NoObserver
    /\ conf = NoConf
    /\ shutdown = NoShutdown
    /\ sup \in UNION { {Cerberus(cfg, paths) : paths \in [Units(cfg) -> BOOLEAN]} :
                       cfg \in SupConfigs }

SupNext ==
    \/ InitFoldersJobs
    \/ InitMysqldbJobs
    \/ RunFolder
    \/ AppendObserver
    \/ InitDbJobs
    \/ CycleOverFolders
    \/ CycleOverDbJobs
    \/ Sleep
    \/ Signal
    \/ \E u \in Units(sup.cfg) : ObserverDies(u)
    \/ \E u \in Units(sup.cfg) : PathAppears(u)
    \/ \E u \in Units(sup.cfg) : PathVanishes(u)

SpecSup == SupInit /\ [][SupNext]_vars


\* ------------------------------------------------- the MySQL job's dumps

\* The index file may list at most this many segments.
MaxIndexLines == 2

\* The binlog directory of the job, and the segments that may be on disk:
\* two in the binlog directory and the same two names in another directory.
IndexDir == <<"/", "b">>

Seg_b_s1 == <<"/", "b", "/", "s", "1">>

Seg_b_s2 == <<"/", "b", "/", "s", "2">>

Seg_o_s1 == <<"/", "o", "/", "s", "1">>

Seg_o_s2 == <<"/", "o", "/", "s", "2">>

Segments == {Seg_b_s1, Seg_b_s2, Seg_o_s1, Seg_o_s2}

\* Lines of an index file: a segment named relative to the server's data
\* directory (./s1), or by an absolute path in the other directory.
IndexLineSet ==
    { <<".", "/", "s", "1", "\n">>, <<".", "/", "s", "2", "\n">>,
      Seg_o_s1 \o <<"\n">>, Seg_o_s2 \o <<"\n">> }

\* Names a file of the binlog directory may have where an index is looked for.
Name_m_bin_index == <<"m", "-", "b", "i", "n", ".", "i", "n", "d", "e", "x">>

Name_m_bin_index_x == <<"m", "-", "b", "i", "n", "_", "i", "n", "d", "e", "x">>

Name_m_index == <<"m", ".", "i", "n", "d", "e", "x">>

\* ".*-bin.index$", the default index_file_regex
Re_bin_index ==
    Regex(TRUE, <<Tok("any", "", "star"), Tok("lit", "-", "one"), Tok("lit", "b", "one"),
                  Tok("lit", "i", "one"), Tok("lit", "n", "one"), Tok("any", "", "one"),
                  Tok("lit", "i", "one"), Tok("lit", "n", "one"), Tok("lit", "d", "one"),
                  Tok("lit", "e", "one"), Tok("lit", "x", "one"), Tok("eol", "", "one")>>)

Whitespace == {" ", "\n", "\t"}

\* str.strip(): leading and trailing whitespace removed
RECURSIVE strip(_)
strip(s) ==
    IF s = <<>> THEN s
    ELSE IF Head(s) \in Whitespace THEN strip(Tail(s))
    ELSE IF s[Len(s)] \in Whitespace THEN strip(SubSeq(s, 1, Len(s) - 1))
    ELSE s

\* os.path.join(directory, name)
path_join(dir, name) == dir \o <<"/">> \o name

\* The dump files create_db_dump writes in the dumps folder: the direct one,
\* <binlog name>-<utcnow>.sql, and the one from the binary logs,
\* from-binary-files_<utcnow>.sql.
DirectDump == "direct.sql"

FallbackDump == "from-binary-files.sql"

\* A job: the segments on disk, the file found in the binlog directory
\* (index_name, <<>> when there is none) and its lines, the exit status the
\* dump tool will end with, whether mysqlbinlog can run; and what the last
\* operation left: the files of the dumps folder, which steps it took, the
\* segments it processed, and the exception it ended with.
ManagedMySQL(disk, index_name, index, dump_rc, binlog_tool) ==
    [ disk |-> disk, index_name |-> index_name, index |-> index,
      dump_rc |-> dump_rc, binlog_tool |-> binlog_tool,
      dumps |-> [x \in {} |-> x], op |-> "init",
      direct |-> FALSE, fallback |-> FALSE, consolidated |-> FALSE,
      processed |-> <<>>, err |-> "none" ]

\* What mysqlbinlog --short-form writes for a segment: the statements of the
\* segment when the tool runs, nothing when it cannot.
mysqlbinlog(d, file) == IF d.binlog_tool = "ok" THEN <<file>> ELSE <<>>

\* The list binary_log_files built from the index lines from the i-th on.
RECURSIVE binary_log_files(_, _, _)
binary_log_files(d, lines, i) ==
    IF i > Len(lines) THEN <<>>
    ELSE LET line == strip(lines[i])
             file_name == basename(line)
             file_path == IF line \in d.disk THEN line ELSE path_join(IndexDir, file_name)
         IN (IF file_path \in d.disk THEN <<file_path>> ELSE <<>>)
            \o binary_log_files(d, lines, i + 1)

\* The shell loop: the output of mysqlbinlog for each file, appended in order.
RECURSIVE concatenated(_, _, _)
concatenated(d, files_names, i) ==
    IF i > Len(files_names) THEN <<>>
    ELSE mysqlbinlog(d, files_names[i]) \o concatenated(d, files_names, i + 1)

\* A consolidation in which a listed segment that is missing ends the loop.
create_dump_from_index_file_stop_at_missing(d, destination_file) ==
    LET all == binary_log_files(d, d.index, 1)
        first == IF d.index = <<>> THEN <<>> ELSE binary_log_files(d, <<d.index[1]>>, 1)
        logs == IF first = <<>> THEN <<>> ELSE all
        d1 == [d EXCEPT !.consolidated = TRUE, !.processed = logs]
    IN IF logs = <<>> THEN d1
       ELSE [d1 EXCEPT !.dumps =
               [x \in (DOMAIN @) \cup {destination_file} |->
                  IF x = destination_file THEN concatenated(d, logs, 1) ELSE @[x]]]

\* ManagedMySQL.create_dump_from_index_file: the listed segments found on disk
\* are run through mysqlbinlog into a temporary file, which is copied to the
\* destination; the exit status of neither command is looked at. With no
\* segment found the loop writes no temporary file and the copy has nothing
\* to copy.
create_dump_from_index_file(d, destination_file) ==
    LET logs == binary_log_files(d, d.index, 1)
        d1 == [d EXCEPT !.consolidated = TRUE, !.processed = logs]
    IN IF logs = <<>> THEN d1
       ELSE [d1 EXCEPT !.dumps =
               [x \in (DOMAIN @) \cup {destination_file} |->
                  IF x = destination_file THEN concatenated(d, logs, 1) ELSE @[x]]]

\* ManagedMySQL.create_dump_from_binary_logs: the binlog directory is walked
\* and every file whose name the index regex matches is consolidated.
create_dump_from_binary_logs(d, destination_file) ==
    LET d1 == [d EXCEPT !.fallback = TRUE] IN
    IF d.index_name # <<>> /\ re_match(Re_bin_index.toks, d.index_name)
    THEN create_dump_from_index_file(d1, destination_file)
    ELSE d1

\* ManagedMySQL.create_mysql_dump: the shell redirects the tool's output to
\* the dump file, which it creates first; an exit status other than 0 is an
\* OSError.
create_mysql_dump(d, name) ==
    LET d1 == [d EXCEPT !.direct = TRUE,
                        !.dumps = [x \in (DOMAIN @) \cup {name} |->
                                     IF x = name
                                     THEN IF d.dump_rc = 0 THEN <<"dump">> ELSE <<>>
                                     ELSE @[x]]]
    IN IF d.dump_rc # 0 THEN [d1 EXCEPT !.err = "OSError"] ELSE d1

\* A create_db_dump that consolidates whatever the direct dump did.
create_db_dump_always_consolidates(d) ==
    LET d1 == create_mysql_dump(d, DirectDump) IN
    create_dump_from_binary_logs([d1 EXCEPT !.err = "none"], FallbackDump)

\* ManagedMySQL.create_db_dump: the direct dump, and on OSError the dump from
\* the binary logs.
create_db_dump(d) ==
    LET d1 == create_mysql_dump(d, DirectDump) IN
    IF d1.err = "OSError"
    THEN create_dump_from_binary_logs([d1 EXCEPT !.err = "none"], FallbackDump)
    ELSE d1

\* ------------------------------------- specification: one dump of a job

DumpOthersUnchanged ==
    UNCHANGED <<folder, fs, store, files, nextId, now, last, sup, observer, conf, shutdown>>

\* Exit statuses of the dump tool: done, failed, not found by the shell.
DumpExitCodes == {0, 1, 127}

\* Every index file of at most MaxIndexLines lines.
IndexFiles == UNION {[1..n -> IndexLineSet] : n \in 0..MaxIndexLines}

DumpInit ==
    /\ folder = ManagedFolder(SyncConfig)
    /\ fs = [p \in Paths |-> NoFile]
    /\ store = EmptyFunction
    /\ files = EmptyFunction
    /\ nextId = 1
    /\ now = 0
    /\ last = [op |-> "init", path |-> <<>>, act |-> "NONE", err |-> "none"]
    /\ sup = NoSup
    /\ observer = NoObserver
    /\ conf = NoConf
    /\ shutdown = NoShutdown
    /\ db \in { ManagedMySQL(disk, name, index, rc, tool) :
                  disk \in SUBSET Segments,
                  name \in {<<>>, Name_m_bin_index, Name_m_bin_index_x, Name_m_index},
                  index \in IndexFiles,
                  rc \in DumpExitCodes,
                  tool \in {"ok", "missing"} }

\* A binlog was closed: BinLogHandler.on_closed calls create_db_dump.
CreateDbDump ==
    /\ db.op = "init"
    /\ db' = [create_db_dump(db) EXCEPT !.op = "create_db_dump"]
    /\ DumpOthersUnchanged

\* create_dump_from_index_file is called with an index file that was found.
CreateDumpFromIndexFile ==
    /\ db.op = "init"
    /\ db.index_name # <<>>
    /\ db' = [create_dump_from_index_file(db, FallbackDump) EXCEPT
                !.op = "create_dump_from_index_file"]
    /\ DumpOthersUnchanged

DumpNext == CreateDbDump \/ CreateDumpFromIndexFile

SpecDump == DumpInit /\ [][DumpNext]_vars

\* ------------------------- specification: the final dump of a job

\* The dump file final_dumps_db_jobs writes in the dumps folder:
\* from-binary-logs-exit_<utcnow>.sql.
ExitDump == "from-binary-logs-exit.sql"

\* A final dump that goes through create_db_dump.
final_dumps_db_jobs_body_direct_first(d) == create_db_dump(d)

\* The body of final_dumps_db_jobs for one job.
final_dumps_db_jobs_body(d) == create_dump_from_binary_logs(d, ExitDump)

\* exit_gracefully has called final_dumps_db_jobs, which is at this job.
FinalDumpsDbJobs ==
    /\ db.op = "init"
    /\ db' = [final_dumps_db_jobs_body(db) EXCEPT !.op = "final_dumps_db_jobs"]
    /\ DumpOthersUnchanged

SpecFinalDump == DumpInit /\ [][FinalDumpsDbJobs]_vars

\* ------------------------- specification: a folder's observer thread

\* The observer's thread takes an event from its queue and calls the
\* handler's callback for it.  No callback of Handler has a try around what
\* it calls, and the thread's loop catches nothing but an empty queue: a
\* callback that raises ends the thread.
Observer_dispatch(w) == IF Ok(w) THEN "alive" ELSE "dead"

\* The observer thread has dispatched one event: the callback's world
\* becomes the state, and the thread goes on or ends.
Dispatch(w, op, p) ==
    /\ now < MaxTime
    /\ fs' = w.fs
    /\ store' = w.store
    /\ files' = w.files
    /\ nextId' = IF \E q \in DOMAIN w.files : w.files[q].id = nextId
                 THEN nextId + 1 ELSE nextId
    /\ now' = now + 1
    /\ last' = [op |-> op, path |-> p, act |-> w.act, err |-> w.err]
    /\ observer' = Observer_dispatch(w)
    /\ UNCHANGED <<folder, sup, db, conf, shutdown>>

\* The callbacks run in the observer's thread, while it lives.
DispatchCreated(p) ==
    /\ observer = "alive"
    /\ Dispatch(on_created(World, Event(p, p \in DirPaths)), "on_created", p)

DispatchClosed(p) ==
    /\ observer = "alive"
    /\ p \notin DirPaths
    /\ Dispatch(on_closed(World, Event(p, FALSE)), "on_closed", p)

DispatchDeleted(p) ==
    /\ observer = "alive"
    /\ Dispatch(on_deleted(World, Event(p, p \in DirPaths)), "on_deleted", p)

\* Watcher.run has started the observer of a folder whose registry is empty;
\* the folder may hold files already, and the bucket objects of an earlier
\* run.
WatchInit ==
    /\ folder \in {ManagedFolder(c) : c \in EventConfigs}
    /\ fs \in { [p \in Paths |->
                   IF p \in DirPaths THEN Directory
                   ELSE IF p = Str_a_txt THEN f
                   ELSE RegularFile(<<"x">>, 0)] :
                f \in {NoFile, RegularFile(<<"x">>, 0)} }
    /\ store \in { EmptyFunction,
                   [k \in {s3_path(folder, Str_a_txt)} |-> S3Object(<<"y">>, 0)] }
    /\ files = EmptyFunction
    /\ nextId = 1
    /\ now = 1
    /\ last = [op |-> "init", path |-> <<>>, act |-> "NONE", err |-> "none"]
    /\ sup = NoSup
    /\ db = NoDb
    /\ observer = "alive"
    /\ conf = NoConf
    /\ shutdown = NoShutdown

WatchNext ==
    \/ \E p \in Paths : DispatchCreated(p)
    \/ \E p \in Paths : DispatchClosed(p)
    \/ \E p \in Paths : DispatchDeleted(p)
    \/ \E p \in WrittenPaths, c \in Contents : LocalWrite(p, c)
    \/ \E p \in WrittenPaths : LocalRemove(p)

SpecWatch == WatchInit /\ [][WatchNext]_vars

\* ------------- specification: the shutdown and the dumps folder's observer

\* r".*.sql$", the whitelist_regex import_bin_logs_folder_config gives the
\* dumps folder
Re_sql ==
    Regex(TRUE, <<Tok("any", "", "star"), Tok("any", "", "one"), Tok("lit", "s", "one"),
                  Tok("lit", "q", "one"), Tok("lit", "l", "one"), Tok("eol", "", "one")>>)

\* The final dump's path below the dumps folder.
Str_exit_sql == <<"e", "x", "i", "t", ".", "s", "q", "l">>

\* The folder configuration of the dumps folder.
DumpsFolderConfig ==
    [ priority |-> "local", whitelist |-> <<>>, whitelist_regex |-> <<Re_sql>>,
      blacklist_regex |-> <<>>, prefix_key |-> Str_pfx ]

\* SIGINT or SIGTERM has arrived and exit_gracefully is about to run, in the
\* main thread; the dumps folder's observer runs in its own thread, its
\* queue empty and its registry empty.
ShutdownInit ==
    /\ folder = ManagedFolder(DumpsFolderConfig)
    /\ fs = [p \in {Str_exit_sql} |-> NoFile]
    /\ store = EmptyFunction
    /\ files = EmptyFunction
    /\ nextId = 1
    /\ now = 1
    /\ last = [op |-> "init", path |-> <<>>, act |-> "NONE", err |-> "none"]
    /\ sup = NoSup
    /\ db \in { ManagedMySQL(disk, Name_m_bin_index, index, 0, tool) :
                  disk \in SUBSET Segments,
                  index \in IndexFiles,
                  tool \in {"ok", "missing"} }
    /\ observer = "alive"
    /\ conf = NoConf
    /\ shutdown = [pc |-> "final_dumps_db_jobs", event_queue |-> <<>>]

\* exit_gracefully calls final_dumps_db_jobs: the dump file, where one is
\* written, is closed, and inotify queues the close event for the observer.
ExitFinalDumps ==
    /\ shutdown.pc = "final_dumps_db_jobs"
    /\ LET d == final_dumps_db_jobs_body(db)
           written == ExitDump \in DOMAIN d.dumps
       IN /\ db' = [d EXCEPT !.op = "final_dumps_db_jobs"]
          /\ fs' = IF written
                   THEN [fs EXCEPT ![Str_exit_sql] = RegularFile(d.dumps[ExitDump], now)]
                   ELSE fs
          /\ shutdown' =
               [pc |-> IF d.err = "none" THEN "cycle_over_db_jobs" ELSE "raised",
                event_queue |-> IF written
                                THEN Append(shutdown.event_queue, Str_exit_sql)
                                ELSE shutdown.event_queue]
    /\ UNCHANGED <<folder, store, files, nextId, now, last, sup, observer, conf>>

\* exit_gracefully calls cycle_over_db_jobs, then cycle_over_folders: the
\* passes look at the binlog folders' and the plain folders' observers.
ExitPasses ==
    /\ shutdown.pc \in {"cycle_over_db_jobs", "cycle_over_folders"}
    /\ shutdown' = [shutdown EXCEPT !.pc = IF @ = "cycle_over_db_jobs"
                                           THEN "cycle_over_folders"
                                           ELSE "graceful_observers_close"]
    /\ UNCHANGED <<folder, fs, store, files, nextId, now, last, sup, db, observer, conf>>

\* exit_gracefully calls graceful_observers_close: observer.stop() and
\* observer.join(); the thread ends at its next look at the stop flag and
\* what its queue holds is never dispatched.
ExitCloseObservers ==
    /\ shutdown.pc = "graceful_observers_close"
    /\ observer' = IF observer = "alive" THEN "stopped" ELSE observer
    /\ shutdown' = [shutdown EXCEPT !.pc = "exit"]
    /\ UNCHANGED <<folder, fs, store, files, nextId, now, last, sup, db, conf>>

\* exit(0)
ExitProcess ==
    /\ shutdown.pc = "exit"
    /\ shutdown' = [shutdown EXCEPT !.pc = "exited"]
    /\ UNCHANGED <<folder, fs, store, files, nextId, now, last, sup, db, observer, conf>>

\* The observer's thread takes the next event of its queue and runs
\* Handler.on_closed, while the thread lives.
ObserverTakesClosed ==
    /\ observer = "alive"
    /\ shutdown.event_queue # <<>>
    /\ LET p == Head(shutdown.event_queue)
           w == on_closed(World, Event(p, FALSE))
       IN /\ fs' = w.fs
          /\ store' = w.store
          /\ files' = w.files
          /\ nextId' = IF \E q \in DOMAIN w.files : w.files[q].id = nextId
                       THEN nextId + 1 ELSE nextId
          /\ last' = [op |-> "on_closed", path |-> p, act |-> w.act, err |-> w.err]
          /\ observer' = Observer_dispatch(w)
    /\ now' = now + 1
    /\ shutdown' = [shutdown EXCEPT !.event_queue = Tail(@)]
    /\ UNCHANGED <<folder, sup, db, conf>>

ShutdownNext ==
    \/ ExitFinalDumps
    \/ ExitPasses
    \/ ExitCloseObservers
    \/ ExitProcess
    \/ ObserverTakesClosed

SpecShutdown == ShutdownInit /\ [][ShutdownNext]_vars

\* ------------------------------ specification: the keys under a prefix

\* The longest configured prefix followed.
MaxPrefixLen == 4

\* Every string of n characters, each a slash or a p.
RECURSIVE PrefixesOfLen(_)
PrefixesOfLen(n) ==
    IF n = 0 THEN {<<>>}
    ELSE {<<c>> \o r : c \in {"/", "p"}, r \in PrefixesOfLen(n - 1)}

\* The values of s3.prefix_key: an empty one is not set, and the folder's
\* name takes its place.
Prefixes == UNION {PrefixesOfLen(n) : n \in 1..MaxPrefixLen}

\* Folders that include the files by name, one for each prefix.
KeyConfigs ==
    { [ priority |-> "local", whitelist |-> <<Str_a_txt, Str_a_txt_tmp>>,
        whitelist_regex |-> <<>>, blacklist_regex |-> <<>>, prefix_key |-> pk ] :
      pk \in Prefixes }

\* The folder holds a.txt, a.txt.tmp and sub/a.txt; nothing is registered.
KeyInit ==
    /\ folder \in {ManagedFolder(c) : c \in KeyConfigs}
    /\ fs = [p \in Paths |-> IF p \in DirPaths THEN Directory
                             ELSE RegularFile(<<"x">>, 0)]
    /\ store = EmptyFunction
    /\ files = EmptyFunction
    /\ nextId = 1
    /\ now = 1
    /\ last = [op |-> "init", path |-> <<>>, act |-> "NONE", err |-> "none"]
    /\ sup = NoSup
    /\ db = NoDb
    /\ observer = NoObserver
    /\ conf = NoConf
    /\ shutdown = NoShutdown

\* Created events register the entities, each with its key.
KeyNext == \E p \in Paths : OnCreated(p)

SpecKey == KeyInit /\ [][KeyNext]_vars

\* --------------------------- specification: the command of a direct dump

\* One word of a shell command: an option and its value ("-h", "db.local"),
\* the program's name (no value) or a positional argument (no option).
Word(opt, val) == [opt |-> opt, val |-> val]

\* The port build_sql_command writes where none is configured.
DefaultPort == "3306"

\* A key the mapping does not have.
Absent == "<absent>"

\* The connection settings of a mysqlDb job: the given keys only.
Connection(hostname, socket_path, port, username, password, database) ==
    LET all == [hostname |-> hostname, socket_path |-> socket_path, port |-> port,
                username |-> username, password |-> password, database |-> database]
    IN [k \in {x \in DOMAIN all : all[x] # Absent} |-> all[k]]

\* Jobs with and without a hostname (one empty), a socket path and a port;
\* the credentials and the database are always there.
Connections ==
    { Connection(h, sp, po, u, "pw", d) :
        h \in {Absent, "", "db.local"},
        sp \in {Absent, "/run//mysqld.sock"},
        po \in {Absent, DefaultPort, "3307"},
        u \in {"root", "app"},
        d \in {"shop", "blog"} }

\* build_sql_command: with a hostname the command is one conditional
\* expression, whose first arm is all the adjacent literals from "mysqldump"
\* to the port and whose second arm is "--port=3306" and the database; the
\* socket path goes through lean_path.
build_sql_command(config) ==
    IF keyisset("hostname", config)
    THEN [cmd |-> IF keyisset("port", config)
                  THEN <<Word("mysqldump", ""), Word("--protocol", "TCP"),
                         Word("-h", config.hostname), Word("-u", config.username),
                         Word("-p", config.password), Word("--port", config.port)>>
                  ELSE <<Word("--port", DefaultPort), Word("", config.database)>>,
          error |-> "none"]
    ELSE IF keyisset("socket_path", config)
    THEN [cmd |-> <<Word("mysqldump", ""),
                    Word("--socket", <<"lean_path", config.socket_path>>),
                    Word("-u", config.username), Word("-p", config.password),
                    Word("", config.database)>>,
          error |-> "none"]
    ELSE [cmd |-> <<>>, error |-> "KeyError"]

\* ManagedMySQL.__init__ is about to build the command of its job.
SqlInit ==
    /\ folder = ManagedFolder(SyncConfig)
    /\ fs = [p \in Paths |-> NoFile]
    /\ store = EmptyFunction
    /\ files = EmptyFunction
    /\ nextId = 1
    /\ now = 0
    /\ last = [op |-> "init", path |-> <<>>, act |-> "NONE", err |-> "none"]
    /\ sup = NoSup
    /\ db = NoDb
    /\ observer = NoObserver
    /\ conf \in {[op |-> "init", raw |-> c, result |-> [cmd |-> <<>>, error |-> "none"]] :
                 c \in Connections}
    /\ shutdown = NoShutdown

\* build_sql_command(config) is called.
BuildSqlCommand ==
    /\ conf.op = "init"
    /\ conf' = [op |-> "build_sql_command", raw |-> conf.raw,
                result |-> build_sql_command(conf.raw)]
    /\ UNCHANGED <<folder, fs, store, files, nextId, now, last, sup, db, observer,
                   shutdown>>

SpecSql == SqlInit /\ [][BuildSqlCommand]_vars

\* --------------------------- specification: the methods of one entity

\* The entity of a.txt is of the class of the watchdog or of the folder's
\* handler, and its bucket is the configured one or one that answers 403.
EntityClasses == {"File", "s3_file_mgmt.S3ManagedFile"}

EntityBuckets == {Bucket, OtherBucket}

\* file.exists_in_s3() is called; the answer is kept ("raised" when there is
\* none).
FileExistsInS3(p) ==
    /\ now < MaxTime
    /\ p \in DOMAIN files
    /\ LET w == exists_in_s3_w(World, p) IN
       Commit(Act(w, IF ~Ok(w) THEN "raised"
                     ELSE IF exists_in_s3(World, p) THEN "True" ELSE "False"),
              "exists_in_s3", p)

\* file.upload()
FileUpload(p) ==
    /\ now < MaxTime
    /\ p \in DOMAIN files
    /\ Commit(upload(World, p), "upload", p)

\* file.download(override_path); what it follows is kept: an upload of the
\* same entity that succeeded, or anything else.
FileDownload(p, override_path) ==
    /\ now < MaxTime
    /\ p \in DOMAIN files
    /\ Commit(Act(File_download(World, p, override_path),
                  IF last.op = "upload" /\ last.path = p /\ last.err = "none"
                  THEN "AFTER_UPLOAD" ELSE "NONE"),
              "download", p)

\* Another writer of the bucket deletes the object at the entity's key.
RemoteDelete(p) ==
    /\ now < MaxTime
    /\ p \in DOMAIN files
    /\ files[p].key \in DOMAIN store
    /\ Commit([World EXCEPT !.store = [k \in (DOMAIN @) \ {files[p].key} |-> @[k]]],
              "remote_delete", p)

\* One entity has been constructed and has loaded nothing yet.
FileInit ==
    /\ folder = ManagedFolder(SyncConfig)
    /\ fs \in { [p \in Paths |->
                   IF p \in DirPaths THEN Directory
                   ELSE IF p = Str_a_txt THEN f ELSE NoFile] :
                f \in {NoFile} \cup {RegularFile(c, 0) : c \in Contents} }
    /\ store \in {EmptyFunction} \cup
                 { [k \in {s3_path(folder, Str_a_txt)} |-> S3Object(c, 0)] :
                   c \in Contents }
    /\ files \in { [p \in {Str_a_txt} |->
                      NewEntityIn(b, 0, cls, s3_path(folder, Str_a_txt))] :
                   cls \in EntityClasses, b \in EntityBuckets }
    /\ nextId = 1
    /\ now = 2
    /\ last = [op |-> "init", path |-> <<>>, act |-> "NONE", err |-> "none"]
    /\ sup = NoSup
    /\ db = NoDb
    /\ observer = NoObserver
    /\ conf = NoConf
    /\ shutdown = NoShutdown

FileNext ==
    \/ \E p \in WrittenPaths : FileExistsInS3(p)
    \/ \E p \in WrittenPaths : FileUpload(p)
    \/ \E p \in WrittenPaths, q \in Paths : FileDownload(p, q)
    \/ \E p \in WrittenPaths, c \in Contents : LocalWrite(p, c)
    \/ \E p \in WrittenPaths : RemoteDelete(p)

SpecFile == FileInit /\ [][FileNext]_vars

\* ---------------------------------------------------- the configuration

\* Top-level keys of a raw mapping: the two the configuration is made of,
\* and a file path put where a key is expected.
ConfigKeys == {"folders", "mysqlDb", "/tmp/tox.ini"}

\* What a top-level key holds: a mapping of folder definitions, a mapping of
\* job definitions, the settings of one file, or a scalar.
ConfigValues == {"folder_definitions", "job_definitions", "file_settings", "scalar"}

RawMappings == UNION {[K -> ConfigValues] : K \in SUBSET ConfigKeys}

\* The schema input.json: top-level keys folders and mysqlDb, each optional,
\* each holding the mapping of its kind, and no other key.
input_json_accepts(config) ==
    \A k \in DOMAIN config :
        \/ k = "folders" /\ config[k] = "folder_definitions"
        \/ k = "mysqlDb" /\ config[k] = "job_definitions"

\* validate_input: jsonschema.validate raises ValidationError on a mapping
\* the schema does not accept.
validate_input(config) ==
    IF input_json_accepts(config) THEN "none" ELSE "ValidationError"

\* How a call of init_config ended.
Returned(config) ==
    [returned |-> TRUE, config |-> config, error |-> "none", validated |-> TRUE]

Raised(error, validated) ==
    [returned |-> FALSE, config |-> EmptyFunction, error |-> error, validated |-> validated]

\* An init_config that returns the raw mapping without validating it.
init_config_unvalidated(raw) ==
    IF raw.given /\ DOMAIN raw.value # {} THEN Returned(raw.value)
    ELSE Raised("Exception", FALSE)

\* init_config(raw=...) with no file_path and no env_var: a mapping that is
\* truthy (not None, not empty) is validated and returned; otherwise no
\* branch takes the input and "No input source was provided" is raised.
init_config(raw) ==
    IF raw.given /\ DOMAIN raw.value # {}
    THEN IF validate_input(raw.value) = "none" THEN Returned(raw.value)
         ELSE Raised(validate_input(raw.value), TRUE)
    ELSE Raised("Exception", FALSE)

\* ----------------------------------- specification: loading a raw mapping

RawInputs ==
    {[given |-> FALSE, value |-> EmptyFunction]}
    \cup {[given |-> TRUE, value |-> r] : r \in RawMappings}

ConfInit ==
    /\ folder = ManagedFolder(SyncConfig)
    /\ fs = [p \in Paths |-> NoFile]
    /\ store = EmptyFunction
    /\ files = EmptyFunction
    /\ nextId = 1
    /\ now = 0
    /\ last = [op |-> "init", path |-> <<>>, act |-> "NONE", err |-> "none"]
    /\ sup = NoSup
    /\ db = NoDb
    /\ observer = NoObserver
    /\ conf \in {[op |-> "init", raw |-> r, result |-> Raised("none", FALSE)] :
                 r \in RawInputs}
    /\ shutdown = NoShutdown

\* init_config(raw=conf.raw) is called.
InitConfig ==
    /\ conf.op = "init"
    /\ conf' = [op |-> "init_config", raw |-> conf.raw, result |-> init_config(conf.raw)]
    /\ UNCHANGED <<folder, fs, store, files, nextId, now, last, sup, db, observer,
                   shutdown>>

ConfNext == InitConfig

SpecConf == ConfInit /\ [][ConfNext]_vars

\* ------------ specification: the S3 watchdog and a backup that fails

\* As SyncInit, the entity's bucket being one that refuses the backup copy.
BackupInit ==
    /\ folder = ManagedFolder(SyncConfig)
    /\ fs \in { [p \in Paths |->
                   IF p \in DirPaths THEN Directory
                   ELSE IF p = Str_a_txt THEN f ELSE NoFile] :
                f \in {NoFile} \cup
                      {RegularFile(c, t) : c \in Contents, t \in InitTimes} }
    /\ store \in {EmptyFunction} \cup
                 { [k \in {s3_path(folder, Str_a_txt)} |-> S3Object(c, t)] :
                   c \in Contents, t \in InitTimes }
    /\ files \in { [p \in {Str_a_txt} |->
                      NewEntityIn(KeysOnlyBucket, 0, cls, s3_path(folder, Str_a_txt))] :
                   cls \in SyncClasses }
    /\ nextId = 1
    /\ now = 2
    /\ last = [op |-> "init", path |-> <<>>, act |-> "NONE", err |-> "none"]
    /\ sup = NoSup
    /\ db = NoDb
    /\ observer = NoObserver
    /\ conf = NoConf
    /\ shutdown = NoShutdown

SpecBackup == BackupInit /\ [][SyncNext]_vars

\* ----------------------------------- the handler of a binlog folder

Str_mariadb_bin_1 == <<"m", "a", "r", "i", "a", "d", "b", "-", "b", "i", "n", ".", "1">>

Str_mariadb_bin_index ==
    <<"m", "a", "r", "i", "a", "d", "b", "-", "b", "i", "n", ".", "i", "n", "d", "e", "x">>

\* r"mariadb-bin.[0-9]+$", the pattern BinLogHandler.on_closed passes on
Re_binlog_segment ==
    Regex(TRUE, <<Tok("lit", "m", "one"), Tok("lit", "a", "one"), Tok("lit", "r", "one"),
                  Tok("lit", "i", "one"), Tok("lit", "a", "one"), Tok("lit", "d", "one"),
                  Tok("lit", "b", "one"), Tok("lit", "-", "one"), Tok("lit", "b", "one"),
                  Tok("lit", "i", "one"), Tok("lit", "n", "one"), Tok("any", "", "one"),
                  Tok("digit", "", "plus"), Tok("eol", "", "one")>>)

\* r".*"
Re_all == Regex(TRUE, <<Tok("any", "", "star")>>)

\* The files of the binlog directory: a segment and the index.
BinlogPaths == {Str_mariadb_bin_1, Str_mariadb_bin_index}

\* The folder configurations of bin_logs: every file is included; only the
\* index is included.
BinlogConfigs ==
    { [ priority |-> "local", whitelist |-> <<>>, whitelist_regex |-> <<Re_all>>,
        blacklist_regex |-> <<>>, prefix_key |-> Str_pfx ],
      [ priority |-> "local", whitelist |-> <<Str_mariadb_bin_index>>,
        whitelist_regex |-> <<>>, blacklist_regex |-> <<>>, prefix_key |-> Str_pfx ] }

\* A call get_file_from_event(event, folder, **keywords): the function has the
\* parameters event and folder only, and a keyword that is neither raises
\* TypeError before its body runs.
get_file_from_event_call(w, event, keywords) ==
    IF keywords \subseteq {"event", "folder"} THEN get_file_from_event(w, event)
    ELSE [w |-> Raise(w, "TypeError"), file |-> FALSE]

\* BinLogHandler.on_closed: the file is looked up with the keyword
\* override_match_regex, uploaded, and create_db_dump is called (what that
\* does is the subject of the dump's own specification).
BinLogHandler_on_closed(w, event) ==
    LET got == get_file_from_event_call(w, event, {"override_match_regex"}) IN
    IF ~Ok(got.w) THEN got.w
    ELSE IF ~got.file THEN got.w
    ELSE Act(upload(got.w, event.src_path), "CREATE_DB_DUMP")

\* ---------------------- specification: the observer of a binlog folder

\* The observer thread dispatches the close of a file of the directory.
BinLogClosed(p) ==
    /\ observer = "alive"
    /\ Dispatch(BinLogHandler_on_closed(World, Event(p, FALSE)),
                "BinLogHandler.on_closed", p)

\* BinLogsWatcher.run has started the observer; the registry is empty, and
\* the server has written the segment and the index or not yet.
BinlogInit ==
    /\ folder \in {ManagedFolder(c) : c \in BinlogConfigs}
    /\ fs \in [BinlogPaths -> {NoFile, RegularFile(<<"x">>, 0)}]
    /\ store = EmptyFunction
    /\ files = EmptyFunction
    /\ nextId = 1
    /\ now = 1
    /\ last = [op |-> "init", path |-> <<>>, act |-> "NONE", err |-> "none"]
    /\ sup = NoSup
    /\ db = NoDb
    /\ observer = "alive"
    /\ conf = NoConf
    /\ shutdown = NoShutdown

BinlogNext ==
    \/ \E p \in BinlogPaths : BinLogClosed(p)
    \/ \E p \in BinlogPaths, c \in Contents : LocalWrite(p, c)
    \/ \E p \in BinlogPaths : LocalRemove(p)

SpecBinlog == BinlogInit /\ [][BinlogNext]_vars

\* ------------------------------------------------------------- claims

\* The key a backup of the object at key, last modified at t, is written to:
\* key + "-" + <t in epoch seconds> + <extension of the local path>.
BackupKey(key, t, p) == key \o <<"-">> \o FloatStr(t) \o splitext_ext(p)

\* The admission rule as the specification words it: no exclude regex
\* matches the base name, and an include regex matches it or it is one of the
\* literal include names.
Admitted(f, path) ==
    /\ ~\E i \in 1..Len(f.blacklist_re) : re_match(f.blacklist_re[i], basename(path))
    /\ \/ \E i \in 1..Len(f.whitelist_re) : re_match(f.whitelist_re[i], basename(path))
       \/ \E i \in 1..Len(f.whitelist) : f.whitelist[i] = basename(path)

EventOps == {"on_created", "on_closed", "on_deleted"}

\* C1 (as claimed): whenever a watched entity is uploaded while an object
\* exists at its key, afterwards a backup of that object exists at
\* key-<its last-modified>-<ext>, holding the content that was overwritten.
C1_UploadBacksUpFirst ==
    [][ \A p \in Paths :
          ( /\ last'.op = "on_closed" /\ last'.path = p
            /\ p \in DOMAIN files'
            /\ fs[p].kind = "file"
            /\ files'[p].key \in DOMAIN store )
          => LET key == files'[p].key
                 bk == BackupKey(key, store[key].last_modified, p)
             IN bk \in DOMAIN store' /\ store'[bk].content = store[key].content
      ]_vars

\* C2: no event removes an object from the bucket, and a delete event changes
\* the bucket at most at the backup key of the event's entity, where it leaves
\* a copy of the object found at the entity's key.
C2_DeleteOnlyBacksUp ==
    [][ /\ \A k \in DOMAIN store : k \in DOMAIN store'
        /\ \A p \in Paths :
             (last'.op = "on_deleted" /\ last'.path = p)
             => \A k \in DOMAIN store' :
                  (k \notin DOMAIN store \/ store'[k] # store[k])
                  => /\ p \in DOMAIN files'
                     /\ files'[p].key \in DOMAIN store
                     /\ k = BackupKey(files'[p].key, files'[p].data.last_modified, p)
                     /\ store'[k].content = store[files'[p].key].content
                     /\ store'[files'[p].key] = store[files'[p].key]
      ]_vars

\* C2's case: a delete event of an entity has left a backup beside the
\* object, which is still at the key.
C2_Witness ==
    /\ last.op = "on_deleted" /\ last.err = "none"
    /\ last.path \in DOMAIN files
    /\ files[last.path].key \in DOMAIN store
    /\ BackupKey(files[last.path].key, files[last.path].data.last_modified, last.path)
         \in DOMAIN store

\* C3: a reconcile of an entity whose local file and remote object both exist
\* with equal sizes takes no action, whatever the two modification times: the
\* filesystem and the bucket are unchanged.
C3_EqualSizesNoAction ==
    [][ \A p \in WrittenPaths :
          ( /\ last'.op = "check_s3_changes" /\ last'.path = p
            /\ fs[p].kind = "file"
            /\ files[p].key \in DOMAIN store
            /\ Len(fs[p].content) = Len(store[files[p].key].content) )
          => /\ last'.act = "NONE" /\ last'.err = "none"
             /\ fs' = fs /\ store' = store
      ]_vars

\* C3's case: a reconcile has just left alone two sides of equal size whose
\* contents and modification times differ.
C3_Witness ==
    /\ last.op = "check_s3_changes" /\ last.act = "NONE"
    /\ fs[last.path].kind = "file"
    /\ files[last.path].key \in DOMAIN store
    /\ Len(fs[last.path].content) = Len(store[files[last.path].key].content)
    /\ fs[last.path].content # store[files[last.path].key].content
    /\ fs[last.path].mtime < store[files[last.path].key].last_modified

\* C4: a reconcile of an entity whose local file is absent and whose remote
\* object exists is an initial download: afterwards the local file exists and
\* holds the object's content (so its size is the object's size).
C4_InitialDownload ==
    [][ \A p \in WrittenPaths :
          ( /\ last'.op = "check_s3_changes" /\ last'.path = p
            /\ fs[p].kind = "none"
            /\ files[p].key \in DOMAIN store )
          => /\ last'.act = "DOWNLOAD_INITIAL" /\ last'.err = "none"
             /\ fs'[p].kind = "file"
             /\ Len(fs'[p].content) = Len(store[files[p].key].content)
             /\ fs'[p].content = store[files[p].key].content
             /\ store' = store
      ]_vars

\* C4's case: an initial download has just created a non-empty local file.
C4_Witness ==
    /\ last.op = "check_s3_changes" /\ last.act = "DOWNLOAD_INITIAL"
    /\ fs[last.path].kind = "file"
    /\ Len(fs[last.path].content) = 1

C6_DownloadSetsMarker ==
    [][ \A p \in WrittenPaths :
          (last'.op = "check_s3_changes" /\ last'.path = p)
          => IF /\ fs[p].kind = "file"
                /\ files[p].key \in DOMAIN store
                /\ Len(fs[p].content) # Len(store[files[p].key].content)
                /\ store[files[p].key].last_modified > fs[p].mtime
             THEN /\ fs'[p].content = store[files[p].key].content
                  /\ files'[p].marker.set
                  /\ files'[p].marker.t = fs'[p].mtime
             ELSE files'[p].marker = files[p].marker
      ]_vars

\* C7 (as claimed, for an entity of class File): a reconcile that finds both
\* sides, of different sizes and the local one newer, backs the object up and
\* uploads: afterwards the backup key holds the content the object had, and
\* the key holds the local content.
C7_BackupThenUpload ==
    [][ \A p \in WrittenPaths :
          ( /\ last'.op = "check_s3_changes" /\ last'.path = p
            /\ files[p].cls = "File"
            /\ fs[p].kind = "file"
            /\ files[p].key \in DOMAIN store
            /\ Len(fs[p].content) # Len(store[files[p].key].content)
            /\ fs[p].mtime > store[files[p].key].last_modified )
          => LET key == files[p].key
                 bk == BackupKey(key, store[key].last_modified, p)
             IN /\ last'.act = "BACKUP_THEN_UPLOAD"
                /\ bk \in DOMAIN store'
                /\ store'[bk].content = store[key].content
                /\ store'[key].content = fs[p].content
      ]_vars

\* C8: file_is_to_watch answers True exactly for the paths the admission rule
\* admits.
C8_FilterIsAdmissionRule ==
    last.op = "file_is_to_watch"
    => (last.act = "True" <=> Admitted(folder, last.path))

\* C8's case: a name an include regex matches is rejected because an exclude
\* regex matches it too (a.txt.tmp, with a.txt among the literal names).
C8_Witness ==
    /\ last.op = "file_is_to_watch" /\ last.path = Str_a_txt_tmp
    /\ last.act = "False"
    /\ any_match(folder.whitelist_re, Str_a_txt_tmp)
    /\ in_list(Str_a_txt, folder.whitelist)

\* C9: every registered path is a file (no directory) that the admission rule
\* admits; a registered path keeps the one entity it was given, and no two
\* paths share an entity; an event for a path the rule does not admit, or for
\* a directory, changes neither the registry nor the bucket.
C9_RegistryHoldsAdmittedFiles ==
    [][ /\ \A p \in DOMAIN files' : p \notin DirPaths /\ Admitted(folder, p)
        /\ \A p \in DOMAIN files : p \in DOMAIN files' /\ files'[p].id = files[p].id
        /\ \A p, q \in DOMAIN files' : files'[p].id = files'[q].id => p = q
        /\ \A p \in Paths :
             ( /\ last'.op \in EventOps /\ last'.path = p
               /\ (~Admitted(folder, p) \/ p \in DirPaths) )
             => files' = files /\ store' = store
      ]_vars

\* C9's case: two entities are registered, and the last event was the close
\* of an existing file the rule does not admit.
C9_Witness ==
    /\ Cardinality(DOMAIN files) = 2
    /\ last.op = "on_closed" /\ last.path = Str_a_txt_tmp
    /\ fs[Str_a_txt_tmp].kind = "file"
    /\ ~Admitted(folder, Str_a_txt_tmp)

\* C10: a close event for an admitted path whose file exists resolves the
\* path's entity (registering it when it is new, keeping it otherwise) and
\* uploads the file: afterwards the object at the entity's key holds the
\* file's content.
C10_CloseUploads ==
    [][ \A p \in Paths :
          ( /\ last'.op = "on_closed" /\ last'.path = p
            /\ Admitted(folder, p)
            /\ fs[p].kind = "file" )
          => /\ p \in DOMAIN files'
             /\ (p \in DOMAIN files => files'[p].id = files[p].id)
             /\ files'[p].key = s3_path(folder, p)
             /\ files'[p].key \in DOMAIN store'
             /\ store'[files'[p].key].content = fs[p].content
             /\ store'[files'[p].key].last_modified = now
             /\ last'.err = "none"
      ]_vars

\* C10's case: the close of the second-registered of two entities has just
\* put its file, an empty one, at its key.
C10_Witness ==
    /\ last.op = "on_closed" /\ last.err = "none"
    /\ last.path = Str_a_txt
    /\ files[Str_a_txt].id = 2
    /\ fs[Str_a_txt].kind = "file" /\ fs[Str_a_txt].content = <<>>
    /\ store[files[Str_a_txt].key] = S3Object(<<>>, now - 1)

\* C11 (as claimed): a create event for an admitted path whose file exists
\* uploads the file at once: afterwards the object at the entity's key holds
\* the file's content.
C11_CreateUploads ==
    [][ \A p \in Paths :
          ( /\ last'.op = "on_created" /\ last'.path = p
            /\ Admitted(folder, p) /\ p \notin DirPaths
            /\ fs[p].kind = "file" )
          => /\ s3_path(folder, p) \in DOMAIN store'
             /\ store'[s3_path(folder, p)].content = fs[p].content
      ]_vars

\* C11 (amended): a create event for an admitted path resolves the path's
\* entity (registering it when it is new, keeping it otherwise), raises
\* nothing and uploads nothing: the bucket is left as it was.
C11_CreateRegistersOnly ==
    [][ \A p \in Paths :
          ( /\ last'.op = "on_created" /\ last'.path = p
            /\ Admitted(folder, p) /\ p \notin DirPaths )
          => /\ p \in DOMAIN files'
             /\ (p \in DOMAIN files => files'[p] = files[p])
             /\ files'[p].key = s3_path(folder, p)
             /\ store' = store
             /\ fs' = fs
             /\ last'.err = "none"
      ]_vars

\* C11's case: the first event is the create of an existing file; its entity
\* is registered and no object is at its key.
C11_Witness ==
    /\ now = 2
    /\ last.op = "on_created" /\ last.path = Str_a_txt
    /\ Str_a_txt \in DOMAIN files
    /\ fs[Str_a_txt].kind = "file"
    /\ files[Str_a_txt].key \notin DOMAIN store

\* C12 (as claimed): a delete event for a path that is not in the registry
\* changes neither the registry nor the bucket.
C12_DeleteUnregisteredNoOp ==
    [][ \A p \in Paths :
          (last'.op = "on_deleted" /\ last'.path = p /\ p \notin DOMAIN files)
          => files' = files /\ store' = store
      ]_vars

\* C12 (amended): a delete event for a path that is not in the registry
\* changes nothing when the path is a directory or is not admitted; for an
\* admitted path it registers the entity, and when an object is at the
\* entity's key it leaves a copy of it at the backup key and no other change
\* in the bucket; when no object is there the bucket is unchanged.
C12_DeleteUnregisteredRegisters ==
    [][ \A p \in Paths :
          (last'.op = "on_deleted" /\ last'.path = p /\ p \notin DOMAIN files)
          => IF p \in DirPaths \/ ~Admitted(folder, p)
             THEN files' = files /\ store' = store
             ELSE LET key == s3_path(folder, p) IN
                  /\ p \in DOMAIN files' /\ files'[p].key = key
                  /\ \A q \in DOMAIN files : q \in DOMAIN files' /\ files'[q] = files[q]
                  /\ IF key \in DOMAIN store
                     THEN LET bk == BackupKey(key, store[key].last_modified, p) IN
                          /\ bk \in DOMAIN store'
                          /\ store'[bk].content = store[key].content
                          /\ \A k \in DOMAIN store' :
                               k # bk => k \in DOMAIN store /\ store'[k] = store[k]
                     ELSE store' = store /\ last'.err = "ClientError404"
      ]_vars

\* C12's case: the first event is the delete of an admitted path nothing had
\* registered; its entity is now registered and a backup of the object an
\* earlier run left at its key has been made.
C12_Witness ==
    /\ now = 2
    /\ last.op = "on_deleted" /\ last.path = Str_a_txt
    /\ Str_a_txt \in DOMAIN files
    /\ BackupKey(files[Str_a_txt].key, 0, Str_a_txt) \in DOMAIN store

\* The positions of the main thread inside its loop.
RunningAt ==
    {"cycle_over_folders", "cycle_over_folders_append", "cycle_over_db_jobs",
     "cycle_over_db_jobs_append", "sleep"}

\* C13 (as claimed): when the health check of the main loop comes to a folder
\* whose observer was running and has died, and the folder's root exists, the
\* observer is alive again after it.
C13_DeadFolderRestarted ==
    [][ \A i \in 1..Len(sup.cfg.folders) :
          LET u == FolderUnit(sup.cfg.folders[i]) IN
          ( /\ sup.pc = [at |-> "cycle_over_folders", i |-> i]
            /\ sup'.pc # sup.pc /\ sup'.pc.at \in RunningAt
            /\ sup.obs[u] = "dead" /\ sup.path[u] )
          => sup'.obs[u] = "alive"
      ]_vars

\* C14 (as claimed): a root path that does not exist when the daemon starts
\* stops only its folder; the daemon itself never ends on it.
C14_MissingRootTolerated == Phase(sup) # "CRASHED"

\* The position of x in a list without repetition (0 when absent).
IndexIn(seq, x) ==
    IF InSeq(seq, x) THEN CHOOSE i \in 1..Len(seq) : seq[i] = x ELSE 0

\* What a shutdown is to log for the jobs and the observers list of s: a
\* final dump per job in the jobs' order, the pass over the jobs and the one
\* over the folders, then stop and join of each observer in the list's order.
ShutdownLog(s) ==
    LET nj == Len(s.cfg.jobs)  no == Len(s.observers) IN
    [ k \in 1..(nj + 2 + 2 * no) |->
        IF k <= nj THEN [ev |-> "final_dump", who |-> s.cfg.jobs[k]]
        ELSE IF k = nj + 1 THEN [ev |-> "cycle_over_db_jobs", who |-> "all"]
        ELSE IF k = nj + 2 THEN [ev |-> "cycle_over_folders", who |-> "all"]
        ELSE [ ev |-> IF (k - nj - 2) % 2 = 1 THEN "stop" ELSE "join",
               who |-> s.observers[(k - nj - 1) \div 2] ] ]

C16_AllStartedJoinedAtExit ==
    (Phase(sup) = "EXITED" /\ sup.signal_at \in RunningAt)
    => \A u \in Units(sup.cfg) : sup.obs[u] # "new" => sup.joined[u]

\* C17 (as claimed): a shutdown on a signal ends with status 0; and when the
\* main loop comes to a folder whose observer has died and cannot be started
\* again, the daemon stops and joins every observer and ends with a status
\* other than 0.
C17_ExitCodes ==
    [][ /\ (Phase(sup') = "EXITED" /\ sup'.signal_at # "none") => sup'.exit_code = 0
        /\ \A i \in 1..Len(sup.cfg.folders) :
             LET u == FolderUnit(sup.cfg.folders[i]) IN
             ( /\ sup.pc = [at |-> "cycle_over_folders", i |-> i]
               /\ sup'.pc # sup.pc /\ sup'.signal_at = "none"
               /\ sup.obs[u] = "dead" )
             => /\ sup'.exit_code \notin {-1, 0}
                /\ \A v \in Units(sup.cfg) : sup'.obs[v] # "new" => sup'.joined[v]
      ]_vars

\* The file an index line names: the line's own path when a file is there,
\* the file of that base name in the index's directory otherwise.
ListedSegment(d, l) ==
    IF strip(l) \in d.disk THEN strip(l) ELSE path_join(IndexDir, basename(strip(l)))

\* The listed segments that exist on disk, in index-file line order.
ExistingListed(d) ==
    SelectSeq([i \in 1..Len(d.index) |-> ListedSegment(d, d.index[i])],
              LAMBDA f : f \in d.disk)

\* C18: create_dump_from_index_file processes exactly the listed segments
\* that exist on disk, in the order of the index lines, raises nothing for
\* the missing ones, and when it processed one the destination holds the
\* concatenation, in that order, of what mysqlbinlog wrote for each.
C18_ConsolidatesExistingSegments ==
    db.op = "create_dump_from_index_file"
    => /\ db.processed = ExistingListed(db)
       /\ db.err = "none"
       /\ db.processed # <<>>
            => /\ FallbackDump \in DOMAIN db.dumps
               /\ db.dumps[FallbackDump]
                    = IF db.binlog_tool = "ok" THEN ExistingListed(db) ELSE <<>>

\* C18's case: the index lists s1 and s2, s2 is not on disk, and the
\* destination holds the output for s1 alone.
C18_Witness ==
    /\ db.op = "create_dump_from_index_file"
    /\ db.index = << <<".", "/", "s", "1", "\n">>, <<".", "/", "s", "2", "\n">> >>
    /\ Seg_b_s1 \in db.disk /\ Seg_b_s2 \notin db.disk
    /\ db.binlog_tool = "ok"
    /\ db.dumps[FallbackDump] = <<Seg_b_s1>>

\* C19: create_db_dump always attempts the direct dump, and goes on to the
\* dump from the binary logs exactly when the dump tool ended with a status
\* other than 0; after a direct dump that succeeded nothing was consolidated
\* and the only dump file is the direct one.
C19_FallbackIffDirectFails ==
    db.op = "create_db_dump"
    => /\ db.direct
       /\ db.fallback <=> db.dump_rc # 0
       /\ db.dump_rc = 0
            => /\ ~db.consolidated
               /\ DOMAIN db.dumps = {DirectDump}
               /\ db.dumps[DirectDump] # <<>>

\* C19's case: the shell did not find the dump tool (status 127), and the
\* dump from the binary logs was made from the index found.
C19_Witness ==
    /\ db.op = "create_db_dump"
    /\ db.dump_rc = 127
    /\ db.fallback /\ db.consolidated
    /\ FallbackDump \in DOMAIN db.dumps /\ db.dumps[FallbackDump] # <<>>

\* C20 (as claimed): when the direct dump failed, create_db_dump returns
\* either with a non-empty dump file at the fallback destination or with an
\* error.
C20_FallbackDumpExistsOrError ==
    (db.op = "create_db_dump" /\ db.dump_rc # 0)
    => \/ (FallbackDump \in DOMAIN db.dumps /\ db.dumps[FallbackDump] # <<>>)
       \/ db.err # "none"


\* C21 (as claimed): a callback of the folder's handler that fails (its
\* upload or its backup raises) leaves the observer thread of the folder
\* alive, so that the folder's later events are still dispatched.
C21_CallbackFailureKeepsWatching ==
    [][ (last'.op \in EventOps /\ last'.err # "none") => observer' = "alive" ]_vars


\* The unit the main loop's pass is at, and whether the step from this state
\* to the next is that pass trying to start the unit again and failing.
PassUnit(s) ==
    IF s.pc.at = "cycle_over_folders" THEN FolderUnit(s.cfg.folders[s.pc.i])
    ELSE BinUnit(s.cfg.jobs[s.pc.i])

RestartFailed ==
    /\ sup.pc.at \in {"cycle_over_folders", "cycle_over_db_jobs"}
    /\ sup'.pc # sup.pc
    /\ sup'.pc.at # "exited"
    /\ sup.obs[PassUnit(sup)] # "alive"
    /\ sup'.obs[PassUnit(sup)] # "alive"

\* C22: when the pass fails to start a folder again, whatever the error, no
\* other folder's observer is touched or taken off the observers list, the
\* pass goes on to the next folder (or to the next part of the loop), and the
\* main loop keeps running.
C22_RestartFailureIsolated ==
    [][ RestartFailed =>
          LET u == PassUnit(sup)
              n == IF sup.pc.at = "cycle_over_folders" THEN Len(sup.cfg.folders)
                   ELSE Len(sup.cfg.jobs)
          IN /\ \A v \in Units(sup.cfg) \ {u} :
                  /\ sup'.obs[v] = sup.obs[v]
                  /\ sup'.joined[v] = sup.joined[v]
                  /\ InSeq(sup'.observers, v) = InSeq(sup.observers, v)
             /\ sup'.pc = IF sup.pc.i < n THEN [at |-> sup.pc.at, i |-> sup.pc.i + 1]
                          ELSE IF sup.pc.at = "cycle_over_folders"
                          THEN [at |-> "cycle_over_db_jobs", i |-> 1]
                          ELSE [at |-> "sleep", i |-> 1]
             /\ Phase(sup') = "RUNNING"
             /\ sup'.exit_code = -1 ]_vars

\* C22 happens: the pass has failed to start the first folder again (it
\* stopped and joined its observer) and is at the second folder, whose
\* observer is alive.
C22_Witness ==
    /\ sup # NoSup
    /\ sup.pc = [at |-> "cycle_over_folders", i |-> 2]
    /\ sup.obs[FolderUnit("f1")] = "dead"
    /\ sup.joined[FolderUnit("f1")]
    /\ sup.obs[FolderUnit("f2")] = "alive"

\* C23: when an entity's upload has succeeded and its download into a path
\* where no file was follows and succeeds, the file at that path has the
\* content, and so the size, of the entity's local file.
C23_UploadDownloadRoundTrip ==
    [][ ( /\ last'.op = "download"
          /\ last'.act = "AFTER_UPLOAD"
          /\ last'.err = "none" )
        => \A q \in Paths :
             (fs[q].kind = "none" /\ fs'[q].kind = "file")
             => /\ fs'[q].content = fs[last'.path].content
                /\ Len(fs'[q].content) = Len(fs[last'.path].content) ]_vars

\* C23 happens: a non-empty a.txt was uploaded and then downloaded to
\* sub/a.txt, where no file was before.
C23_Witness ==
    /\ last.op = "download" /\ last.act = "AFTER_UPLOAD" /\ last.err = "none"
    /\ fs[Str_a_txt].kind = "file" /\ fs[Str_a_txt].content # <<>>
    /\ fs[Str_sub_a_txt].kind = "file" /\ fs[Str_sub_a_txt].mtime = now - 1
    /\ fs[Str_sub_a_txt].content = fs[Str_a_txt].content

\* What the store answers to a HEAD of the entity's key.
StoreAnswer(p) ==
    IF files[p].bucket = OtherBucket THEN "403"
    ELSE IF files[p].key \in DOMAIN store THEN "200" ELSE "404"

\* C24: exists_in_s3 answers False exactly when it asks the store and the
\* store answers 404; it answers True when the object exists in a bucket
\* the caller may read; and when the store answers with another error, that
\* error is raised to the caller and no answer is given.  (The store is
\* asked unless the entity holds the object's data from an earlier answer.)
C24_ExistsInS3 ==
    [][ last'.op = "exists_in_s3" =>
          LET p == last'.path
              asked == ~files[p].data.loaded
          IN /\ last'.act = "False" <=> (asked /\ StoreAnswer(p) = "404")
             /\ StoreAnswer(p) = "200" => (last'.act = "True" /\ last'.err = "none")
             /\ (asked /\ StoreAnswer(p) = "403")
                  => (last'.act = "raised" /\ last'.err = "ClientError403")
             /\ last'.err # "none" => (asked /\ StoreAnswer(p) = "403") ]_vars

\* C24 happens, one state for each answer: the object was found, the key was
\* not found, and the bucket could not be read.
C24_Witness ==
    /\ last.op = "exists_in_s3"
    /\ last.act = "raised"
    /\ last.err = "ClientError403"
    /\ files[last.path].bucket = OtherBucket

C24_WitnessAbsent ==
    /\ last.op = "exists_in_s3"
    /\ last.act = "False"
    /\ files[last.path].key \notin DOMAIN store

C24_WitnessPresent ==
    /\ last.op = "exists_in_s3"
    /\ last.act = "True"
    /\ files[last.path].key \in DOMAIN store


\* C25 (as claimed): init_config given a raw mapping validates it; a mapping
\* the schema accepts is returned unchanged, and one it does not accept
\* raises ValidationError and nothing is returned.
C25_RawMappingValidated ==
    (conf.op = "init_config" /\ conf.raw.given)
    => /\ conf.result.validated
       /\ input_json_accepts(conf.raw.value)
            => (conf.result.returned /\ conf.result.config = conf.raw.value)
       /\ ~input_json_accepts(conf.raw.value)
            => (~conf.result.returned /\ conf.result.error = "ValidationError")

\* C25 (amended): that holds of every raw mapping that is not empty; the
\* empty mapping is not validated and not returned: init_config takes it for
\* no input and raises Exception.
C25_NonEmptyRawMappingValidated ==
    (conf.op = "init_config" /\ conf.raw.given)
    => IF DOMAIN conf.raw.value # {}
       THEN /\ conf.result.validated
            /\ input_json_accepts(conf.raw.value)
                 => (conf.result.returned /\ conf.result.config = conf.raw.value)
            /\ ~input_json_accepts(conf.raw.value)
                 => (~conf.result.returned /\ conf.result.error = "ValidationError")
       ELSE /\ ~conf.result.validated
            /\ ~conf.result.returned
            /\ conf.result.error = "Exception"

\* C25 happens: a mapping with a file path at top level was refused.
C25_Witness ==
    /\ conf.op = "init_config"
    /\ conf.raw.given
    /\ "/tmp/tox.ini" \in DOMAIN conf.raw.value
    /\ conf.result.error = "ValidationError"
    /\ ~conf.result.returned

\* ... and a mapping with folders and mysqlDb was returned as it was given.
C25_WitnessReturned ==
    /\ conf.op = "init_config"
    /\ DOMAIN conf.raw.value = {"folders", "mysqlDb"}
    /\ conf.result.returned
    /\ conf.result.config = conf.raw.value


\* C26 (as claimed): whatever starts and passes a folder has gone through,
\* failed ones included, a live observer has exactly one handler scheduled
\* on the folder's directory, so that no event reaches two handlers.
C26_OneHandlerPerFolder ==
    sup # NoSup =>
      \A u \in Units(sup.cfg) : sup.obs[u] = "alive" => sup.handlers[u] = "one"


\* The observer of unit u has been stopped, joined and taken off the
\* observers list by the step.
TornDown(u) ==
    /\ sup'.obs[u] = "dead"
    /\ sup'.joined[u]
    /\ sup'.handlers[u] = "none"
    /\ ~InSeq(sup'.observers, u)

\* The step has left the observer of unit u as it was, thread, join and place
\* on the observers list.
LeftAsItWas(u) ==
    /\ sup'.obs[u] = sup.obs[u]
    /\ sup'.joined[u] = sup.joined[u]
    /\ InSeq(sup'.observers, u) = InSeq(sup.observers, u)

\* C27 (as claimed): when the pass fails to start again a folder whose
\* directory exists (so the error is not the path-not-found one), plain or
\* binlog, the folder's observer is stopped, joined and taken off the
\* observers list.
C27_FailedRestartTornDown ==
    [][ (RestartFailed /\ sup.path[PassUnit(sup)]) => TornDown(PassUnit(sup)) ]_vars

\* C27 (amended): that holds of a plain folder, whose restart raised
\* RuntimeError; a binlog folder whose restart failed is left as it was,
\* still on the observers list and not joined.
C27_PlainFolderTornDown ==
    [][ (RestartFailed /\ sup.path[PassUnit(sup)])
        => IF sup.pc.at = "cycle_over_folders"
           THEN TornDown(PassUnit(sup))
           ELSE LeftAsItWas(PassUnit(sup)) ]_vars

\* C27 happens: the first folder, whose directory is there, was started, has
\* ended, and the pass has stopped and joined it and taken it off the list
\* before going on to the binlog folders.
C27_Witness ==
    /\ sup # NoSup
    /\ sup.pc.at = "cycle_over_db_jobs"
    /\ sup.path[FolderUnit("f1")]
    /\ InSeq(sup.started, FolderUnit("f1"))
    /\ sup.obs[FolderUnit("f1")] = "dead"
    /\ sup.joined[FolderUnit("f1")]
    /\ sup.handlers[FolderUnit("f1")] = "none"
    /\ ~InSeq(sup.observers, FolderUnit("f1"))

\* ... and a binlog folder whose restart failed is still listed: its
\* observer has ended, was never joined, holds the handlers of the start
\* and of the failed restart, and the loop is at its sleep.
C27_WitnessBinlog ==
    /\ sup # NoSup
    /\ sup.pc.at = "sleep"
    /\ sup.path[BinUnit("j1")]
    /\ sup.obs[BinUnit("j1")] = "dead"
    /\ ~sup.joined[BinUnit("j1")]
    /\ sup.handlers[BinUnit("j1")] = "many"
    /\ InSeq(sup.observers, BinUnit("j1"))


\* One poll cycle of the main loop run from state s without interruption:
\* cycle_over_folders, then cycle_over_db_jobs.
PollCycle(s, ch) == cycle_over_db_jobs(cycle_over_folders(s, 1, ch), 1, ch)

\* C28 (as claimed): a poll cycle tries to start every supervised folder
\* that is not alive, plain, binlog and dumps alike; so, at the loop's
\* sleep, the cycle to come starts every folder that was never started and
\* whose directory is there now.
C28_EveryFolderRetried ==
    (sup # NoSup /\ sup.pc.at = "sleep")
    => \A ch \in [Units(sup.cfg) -> RunErrors] :
         \A u \in Units(sup.cfg) :
           (sup.obs[u] = "new" /\ sup.path[u]) => PollCycle(sup, ch).obs[u] = "alive"


\* Entity p's local file and remote object both exist, with different sizes
\* and the same modification time.
SizesDifferTimesEqual(p) ==
    /\ fs[p].kind = "file"
    /\ files[p].key \in DOMAIN store
    /\ Len(fs[p].content) # Len(store[files[p].key].content)
    /\ fs[p].mtime = store[files[p].key].last_modified

\* C29: a reconcile of an entity whose local file and remote object both
\* exist with different sizes and equal modification times takes no action:
\* the local file, the remote object and the backup objects (every key of
\* the bucket) are unchanged.
C29_EqualTimesNoAction ==
    [][ \A p \in WrittenPaths :
          (last'.op = "check_s3_changes" /\ last'.path = p /\ SizesDifferTimesEqual(p))
          => /\ last'.act = "NONE" /\ last'.err = "none"
             /\ fs' = fs /\ store' = store
      ]_vars

\* C29's case: a reconcile has just left alone two sides of different sizes
\* that carry the same modification time, and the bucket holds no backup.
C29_Witness ==
    /\ last.op = "check_s3_changes" /\ last.act = "NONE" /\ last.err = "none"
    /\ last.path \in WrittenPaths
    /\ SizesDifferTimesEqual(last.path)
    /\ DOMAIN store = {files[last.path].key}


\* Entity p's local file and remote object have both been written since the
\* entity was built, by others than the entity (it has loaded and transferred
\* nothing yet), and differ in size and in modification time.
BothChanged(p) ==
    /\ ~files[p].data.loaded
    /\ fs[p].kind = "file"
    /\ files[p].key \in DOMAIN store
    /\ \A t \in InitTimes : fs[p].mtime > t /\ store[files[p].key].last_modified > t
    /\ Len(fs[p].content) # Len(store[files[p].key].content)
    /\ fs[p].mtime # store[files[p].key].last_modified

\* C30 (as claimed): a reconcile of a File whose two sides have both changed
\* downloads from S3 when the entity's priority is cloud and uploads to S3
\* when it is local.
C30_PriorityDecides ==
    [][ \A p \in WrittenPaths :
          ( /\ last'.op = "check_s3_changes" /\ last'.path = p
            /\ files[p].cls = "File"
            /\ BothChanged(p) )
          => /\ files[p].priority = PRIORITY_TO_CLOUD
                  => (last'.act = "DOWNLOAD" /\ store' = store)
             /\ files[p].priority = PRIORITY_TO_LOCAL
                  => (last'.act = "BACKUP_THEN_UPLOAD" /\ fs' = fs)
      ]_vars


\* A second entity for the file and key of entity p, built now from
\* definition d: it has loaded nothing yet.
Rebuilt(p, d) ==
    [World EXCEPT !.files[p] =
        set_priority_from_definition(NewEntity(files[p].id, files[p].cls, files[p].key), d)]

\* C31 (as claimed): the branch a reconcile takes depends only on whether the
\* two sides exist, whether their sizes are equal and on their two
\* modification times: an entity and a second one built for the same file
\* and key, with whatever priority, get the same action in the same state of
\* the filesystem and the bucket.
C31_ActionIsFunctionOfInputs ==
    \A p \in DOMAIN files : \A d \in Definitions :
      check_s3_changes(Rebuilt(p, d), p).act = check_s3_changes(World, p).act

\* C31, the part about the priority alone: the same entity with the other
\* priority gets the same action, and leaves the same filesystem and bucket.
C31_PriorityIsIgnored ==
    \A p \in DOMAIN files : \A pr \in {PRIORITY_TO_CLOUD, PRIORITY_TO_LOCAL} :
      LET w1 == check_s3_changes(World, p)
          w2 == check_s3_changes([World EXCEPT !.files[p].priority = pr], p)
      IN w2.act = w1.act /\ w2.fs = w1.fs /\ w2.store = w1.store /\ w2.err = w1.err


\* The branches of a reconcile that transfer the file.
Transfers == {"BACKUP_THEN_UPLOAD", "DOWNLOAD", "UPLOAD_INITIAL", "DOWNLOAD_INITIAL"}

\* The step is a reconcile of the entity the step before it reconciled with
\* a transfer: nobody has changed either side in between.
ReconcileAgain ==
    /\ last.op = "check_s3_changes" /\ last.act \in Transfers
    /\ last'.op = "check_s3_changes" /\ last'.path = last.path

BinlogAdmissible(p) ==
    /\ fs[p].kind = "file"
    /\ re_match(Re_binlog_segment.toks, basename(p))
    /\ file_is_to_watch(folder, p)

C33_OnlyAdmissibleUploaded ==
    [][ \A p \in BinlogPaths :
          (last'.op = "BinLogHandler.on_closed" /\ last'.path = p /\ ~BinlogAdmissible(p))
          => (store' = store /\ last'.act # "CREATE_DB_DUMP")
      ]_vars


\* C34 (as claimed): when an admissible segment is closed, the handler
\* uploads it (the object at its key then holds the segment's content) and
\* after that triggers the dump.
C34_SegmentUploadedThenDump ==
    [][ \A p \in BinlogPaths :
          (last'.op = "BinLogHandler.on_closed" /\ last'.path = p /\ BinlogAdmissible(p))
          => /\ s3_path(folder, p) \in DOMAIN store'
             /\ store'[s3_path(folder, p)].content = fs[p].content
             /\ last'.act = "CREATE_DB_DUMP"
      ]_vars


\* C35 (as claimed): when a reconcile takes the upload branch and the backup
\* copy is refused by the object store, the upload still takes place: the
\* object at the key then holds the local file's content.
C35_BackupFailureDoesNotBlockUpload ==
    [][ \A p \in WrittenPaths :
          ( /\ last'.op = "check_s3_changes" /\ last'.path = p
            /\ last'.act = "BACKUP_THEN_UPLOAD"
            /\ files[p].bucket = KeysOnlyBucket
            /\ fs[p].content # <<>> )
          => store'[files[p].key].content = fs[p].content
      ]_vars


\* C36 (as claimed): no create, close or delete event loses a content
\* version: what an object of the bucket held before the event, at the
\* entity's key or at a backup key, some object holds after it.  (So every
\* version ever stored stays retrievable, whatever the sequence of events.)
C36_VersionsRetrievable ==
    [][ last'.op \in EventOps
        => \A k \in DOMAIN store :
             \E k2 \in DOMAIN store' : store'[k2].content = store[k].content
      ]_vars


\* C37 (as claimed): the final dump of a job first runs the direct dump, and
\* goes to the binary logs exactly when the direct dump failed.
C37_FinalDumpDirectFirst ==
    db.op = "final_dumps_db_jobs"
    => (db.direct /\ (db.fallback <=> db.dump_rc # 0))

\* C37 (amended): the final dump of a job is made from the binary logs
\* alone: the dump tool is not run, whether or not it would succeed, and no
\* file but the one from the binary logs is written.
C37_FinalDumpFromBinaryLogsOnly ==
    db.op = "final_dumps_db_jobs"
    => /\ ~db.direct
       /\ db.fallback
       /\ DOMAIN db.dumps \subseteq {ExitDump}

\* C37 happens: the final dump of a job whose dump tool would have succeeded
\* was written from two segments of the binary logs.
C37_Witness ==
    /\ db.op = "final_dumps_db_jobs"
    /\ db.dump_rc = 0
    /\ db.consolidated
    /\ ExitDump \in DOMAIN db.dumps
    /\ Len(db.dumps[ExitDump]) = 2

\* C38: when the process has exited, the final dump file that the shutdown
\* wrote is in the bucket, at the key of the dumps folder.
C38_FinalDumpUploadedAtExit ==
    (shutdown.pc = "exited" /\ ExitDump \in DOMAIN db.dumps)
        => s3_path(folder, Str_exit_sql) \in DOMAIN store

\* C38: the observer is stopped only after it has taken the close event of
\* the final dump.
C38_ObserverStoppedAfterEvent ==
    [][ (observer = "alive" /\ observer' = "stopped") => shutdown.event_queue = <<>> ]_vars

\* C38: the final dump does reach the bucket where the observer's thread
\* runs before the main thread closes it.
C38_UploadedWhenObserverFirst ==
    /\ shutdown.pc = "exited"
    /\ ExitDump \in DOMAIN db.dumps
    /\ s3_path(folder, Str_exit_sql) \in DOMAIN store

\* The slashes a string starts with, and the string without them.
RECURSIVE LeadingSlashes(_)
LeadingSlashes(str) ==
    IF str # <<>> /\ Head(str) = "/" THEN 1 + LeadingSlashes(Tail(str)) ELSE 0

PrefixName(str) ==
    LET n == LeadingSlashes(str)
        rest == SubSeq(str, n + 1, Len(str))
    IN IF rest # <<>> /\ rest[Len(rest)] = "/" THEN SubSeq(rest, 1, Len(rest) - 1)
       ELSE rest

\* The configurations the folder can have been built from.
ConfiguredAs == {c \in KeyConfigs : folder = ManagedFolder(c)}

\* C39: whatever the configured prefix, the key of every registered entity
\* does not start with a slash and is the prefix without its leading slashes
\* and its trailing slash, one slash, and the path relative to the root.
C39_KeyUnderEveryPrefix ==
    \A c \in ConfiguredAs : \A p \in DOMAIN files :
        /\ ~startswith(files[p].key, "/")
        /\ files[p].key = PrefixName(c.prefix_key) \o <<"/">> \o p

\* C39: under a prefix of at most two leading slashes the key does not start
\* with a slash; it is the prefix's name, one slash and the relative path
\* where the prefix has a name, and the relative path alone where the prefix
\* is slashes only.
C39_KeyUnderPrefix ==
    \A c \in ConfiguredAs : \A p \in DOMAIN files :
        LeadingSlashes(c.prefix_key) <= 2
            => /\ ~startswith(files[p].key, "/")
               /\ files[p].key = IF LeadingSlashes(c.prefix_key) = Len(c.prefix_key)
                                 THEN p
                                 ELSE PrefixName(c.prefix_key) \o <<"/">> \o p

\* C39: the file of the subdirectory is registered under the prefix
\* configured as //p/.
C39_Witness ==
    /\ \E c \in ConfiguredAs : c.prefix_key = <<"/", "/", "p", "/">>
    /\ Str_sub_a_txt \in DOMAIN files

\* C39: under three leading slashes the key starts with a slash.
C39_KeyStartsWithSlash ==
    \E p \in DOMAIN files : startswith(files[p].key, "/")

\* The command holds the word of this option (the value is looked at only
\* where the option is the one asked for).
HasWord(cmd, opt, val) ==
    \E i \in 1..Len(cmd) : cmd[i].opt = opt /\ cmd[i].val = val

\* C40: with a hostname the command is a mysqldump invocation holding the
\* host, the username, the password, the configured port (3306 where none
\* is configured) and the database; without one and with a socket_path it
\* is a mysqldump invocation holding the socket, the username, the password
\* and the database; with neither, KeyError is raised.
C40_BuildSqlCommand ==
    conf.op = "build_sql_command" =>
        LET c == conf.raw
            r == conf.result
        IN IF keyisset("hostname", c)
           THEN /\ r.error = "none"
                /\ HasWord(r.cmd, "mysqldump", "")
                /\ HasWord(r.cmd, "-h", c.hostname)
                /\ HasWord(r.cmd, "-u", c.username)
                /\ HasWord(r.cmd, "-p", c.password)
                /\ HasWord(r.cmd, "--port",
                           IF keyisset("port", c) THEN c.port ELSE DefaultPort)
                /\ HasWord(r.cmd, "", c.database)
           ELSE IF keyisset("socket_path", c)
           THEN /\ r.error = "none"
                /\ HasWord(r.cmd, "mysqldump", "")
                /\ HasWord(r.cmd, "--socket", <<"lean_path", c.socket_path>>)
                /\ HasWord(r.cmd, "-u", c.username)
                /\ HasWord(r.cmd, "-p", c.password)
                /\ HasWord(r.cmd, "", c.database)
           ELSE r.error = "KeyError"

\* C40: the socket arm and the KeyError arm are as stated, and with a
\* hostname the command holds the port.
C40_SocketPortAndKeyError ==
    conf.op = "build_sql_command" =>
        LET c == conf.raw
            r == conf.result
        IN IF keyisset("hostname", c)
           THEN /\ r.error = "none"
                /\ HasWord(r.cmd, "--port",
                           IF keyisset("port", c) THEN c.port ELSE DefaultPort)
           ELSE IF keyisset("socket_path", c)
           THEN /\ r.error = "none"
                /\ HasWord(r.cmd, "mysqldump", "")
                /\ HasWord(r.cmd, "--socket", <<"lean_path", c.socket_path>>)
                /\ HasWord(r.cmd, "-u", c.username)
                /\ HasWord(r.cmd, "-p", c.password)
                /\ HasWord(r.cmd, "", c.database)
           ELSE r.error = "KeyError"

\* C40: with a hostname the command never holds both the program's name and
\* the database.
C40_HostnameCommandIncomplete ==
    (conf.op = "build_sql_command" /\ keyisset("hostname", conf.raw))
        => ~(HasWord(conf.result.cmd, "mysqldump", "")
             /\ HasWord(conf.result.cmd, "", conf.raw.database))

=============================================================================
